---------------------------- MODULE Spec2Model ----------------------------
(***************************************************************************)
(* Model of the tag and platform classification of Track-to-Measure:      *)
(* ScanService.scanUrl, its request listener, detectTags with the four    *)
(* detectors, detectCms and generateRecommendations                       *)
(* (src/src/services/scanService.ts).                                      *)
(*                                                                         *)
(* Abstraction of text.  A string the code searches is a sequence of      *)
(* segments: the identifier GTM-AAA is <<"GTM-", "AAA">>, and              *)
(* s.startsWith(p) is a prefix test on segments.  A URL is a site (the     *)
(* part the includes() tests look at) and a query, a sequence of           *)
(* <<key, value>> pairs.  A DOM element is reduced to the selectors it     *)
(* matches (sel), the literal needles its serialisation includes (inc),    *)
(* the identifier-like tokens of its src attribute (srcIds) and of its     *)
(* script text (textIds), in document order.  Where the code tests several *)
(* spellings of one needle (single and double quotes), one stands for all. *)
(*                                                                         *)
(* Spec is one scan: the page's events while scanUrl navigates and waits,  *)
(* then detectTags, detectCms and generateRecommendations.  SpecCms is     *)
(* detectCms alone, applied to every page of a bounded catalogue.          *)
(* SpecGate is detectTags on a loaded page drawn from the elements that    *)
(* hold an identifier, with every dataLayer of at most one entry.          *)
(* SpecLive is a scan whose page acts while the detectors run: requests,   *)
(* insertions and dataLayer pushes between the evaluations.  SpecScan is   *)
(* scanUrl from its call to its return or throw: validation of the URL,    *)
(* launch, set-up, the two navigation attempts, the scan and the clean-up. *)
(* SpecUsers is createUser and the Google sign-in callback                 *)
(* (src/src/services/userServices.ts, src/unnamed/part_006) run by         *)
(* concurrent requests on one Users table.                                 *)
(***************************************************************************)
EXTENDS Naturals, Sequences, FiniteSets

\* ------------------------------------------------------------------ bounds
\* Page events (requests, DOM insertions, dataLayer pushes, globals) per scan.
MaxEvents == 2
\* page.evaluate rejections (execution context destroyed) per scan.
MaxFaults == 1

\* ----------------------------------------------------------------- helpers
Range(s) == {s[i] : i \in 1..Len(s)}

\* A plausible slip: push without the includes test.
SetAddAlways(s, x) == Append(s, x)

\* A plausible slip: unshift where the code has push.
SetAddInFront(s, x) == IF x \in Range(s) THEN s ELSE <<x>> \o s

\* JavaScript Set.add / "if (!a.includes(x)) a.push(x)": insertion order kept.
SetAdd(s, x) == IF x \in Range(s) THEN s ELSE Append(s, x)

RECURSIVE AddAll(_, _)
AddAll(s, xs) == IF xs = <<>> THEN s ELSE AddAll(SetAdd(s, Head(xs)), Tail(xs))

RECURSIVE Flatten(_)
Flatten(ss) == IF ss = <<>> THEN <<>> ELSE Head(ss) \o Flatten(Tail(ss))

\* The first match of a pattern as a list: empty when there is none.
FirstOf(s) == IF s = <<>> THEN <<>> ELSE <<s[1]>>

\* String.prototype.startsWith on segment sequences
StartsWith(id, p) == Len(id) >= Len(p) /\ SubSeq(id, 1, Len(p)) = p

\* The value absent (undefined) where the code has an optional identifier.
NoId == <<>>

\* A plausible slip: the list indexed from one, as if it were not zero-based.
PrimaryIdFromOne(ids) == IF Len(ids) > 1 THEN ids[2] ELSE NoId

\* id: ids.length > 0 ? ids[0] : undefined
PrimaryId(ids) == IF Len(ids) > 0 THEN ids[1] ELSE NoId

\* ------------------------------------------------------- request listener
\* The markers the listener stores beside real identifiers.
META_PIXEL_DETECTED_VIA_NETWORK == <<"META_PIXEL_DETECTED_VIA_NETWORK">>
GTM_DETECTED_VIA_DESTINATION == <<"GTM-", "DETECTED-VIA-DESTINATION">>
GtmParam(v) == <<"GTM-", "PARAM:">> \o v

\* Digit strings of 10 to 16 digits, the ones /[?&]id=(\d{10,16})/ captures.
LongDigits == {<<"1234567890">>}
\* Digit strings of any length, the ones /(\d+)/ captures.
Digits == LongDigits \cup {<<"222">>, <<"99999">>}

SiteMetaPixel == {"facebook.com/tr", "connect.facebook.net/fbevents.js"}
SiteGtm == {"googletagmanager.com/gtm.js", "googletagmanager.com/gtag/js",
            "googletagmanager.com/gtag/destination"}
SiteGa4 == {"google-analytics.com/g/collect", "googletagmanager.com/gtag/js",
            "googletagmanager.com/gtag/destination"}
SiteGoogleAds == {"googleadservices.com/pagead", "doubleclick.net",
                  "googletagmanager.com/gtag/js",
                  "googletagmanager.com/gtag/destination"}

\* The first of a set of match positions, 0 when there is none:
\* String.prototype.match with a non-global pattern returns the first match.
First(S) == IF S = {} THEN 0 ELSE CHOOSE i \in S : \A j \in S : i <= j

\* Positions of the query parameters named key whose value starts with pre.
KeyWith(q, key, pre) == {i \in 1..Len(q) : q[i][1] = key /\ StartsWith(q[i][2], pre)}
\* Positions of the query parameters whose value starts with pre.
ValueWith(q, pre) == {i \in 1..Len(q) : StartsWith(q[i][2], pre)}


\* metaPixelRequests after one request
ListenMetaPixel(set, url) ==
  IF url.site \notin SiteMetaPixel THEN set
  ELSE LET q == url.query
           i == First({k \in 1..Len(q) : q[k][1] = "id" /\ q[k][2] \in LongDigits})
       IN  IF i > 0 THEN SetAdd(set, url.query[i][2])
           ELSE SetAdd(set, META_PIXEL_DETECTED_VIA_NETWORK)

\* gtmRequests after one request
ListenGtm(set, url) ==
  IF url.site \notin SiteGtm THEN set
  ELSE LET g == First(ValueWith(url.query, <<"GTM-">>))
           s1 == IF g > 0 THEN SetAdd(set, url.query[g][2]) ELSE set
       IN  IF url.site # "googletagmanager.com/gtag/destination" THEN s1
           ELSE LET pm == First(KeyWith(url.query, "gtm", <<>>))
                    mc == First(KeyWith(url.query, "id", <<"MC-">>))
                    s2 == IF pm > 0 THEN SetAdd(s1, GtmParam(url.query[pm][2])) ELSE s1
                    s3 == IF mc > 0 THEN SetAdd(s2, url.query[mc][2]) ELSE s2
                IN  SetAdd(s3, GTM_DETECTED_VIA_DESTINATION)

\* ga4Requests after one request
ListenGa4(set, url) ==
  IF url.site \notin SiteGa4 THEN set
  ELSE LET t == First(KeyWith(url.query, "tid", <<"G-">>))
           g == First(ValueWith(url.query, <<"G-">>))
       IN  IF t > 0 THEN SetAdd(set, url.query[t][2])
           ELSE IF g > 0 THEN SetAdd(set, url.query[g][2])
           ELSE set

\* googleAdsRequests after one request.  The third pattern's match starts with
\* "?" or "&", so the startsWith('conversion_id=') branch is never taken and
\* the raw match is stored.
ListenGoogleAds(set, url) ==
  IF url.site \notin SiteGoogleAds THEN set
  ELSE LET q == url.query
           a == First(KeyWith(q, "id", <<"AW-">>))
           b == First(ValueWith(q, <<"AW-">>))
           c == First({k \in 1..Len(q) : q[k][1] = "conversion_id" /\ q[k][2] \in Digits})
       IN  IF a > 0 THEN SetAdd(set, url.query[a][2])
           ELSE IF b > 0 THEN SetAdd(set, url.query[b][2])
           ELSE IF c > 0
                THEN SetAdd(set, <<(IF c = 1 THEN "?" ELSE "&") , "conversion_id=">>
                                 \o url.query[c][2])
           ELSE set

\* -------------------------------------------------------------- the page
\* matchAll(/PRE[A-Z0-9]+/g) over a text: its tokens that start with pre, cut
\* to the matched part (prefix and body), in text order.
Matches(ids, pre) ==
  LET hit == SelectSeq(ids, LAMBDA id : StartsWith(id, pre))
  IN  [i \in 1..Len(hit) |-> SubSeq(hit[i], 1, Len(pre) + 1)]

\* The identifier-like tokens of the serialised document, in document order.
HtmlIds(page) == Flatten([i \in 1..Len(page) |-> page[i].srcIds \o page[i].textIds])

\* document.documentElement.innerHTML.includes(needle)
HtmlIncludes(page, needle) == \E i \in 1..Len(page) : needle \in page[i].inc

\* innerHTML.includes of an identifier prefix or identifier ('GTM-', 'AW-318511509')
HtmlIncludesId(page, pre) == \E i \in 1..Len(HtmlIds(page)) : StartsWith(HtmlIds(page)[i], pre)

\* document.querySelector(selector) !== null
Query(page, selector) == \E i \in 1..Len(page) : selector \in page[i].sel

\* The elements document.querySelectorAll(selector) returns, in document order.
QueryAll(page, selector) == SelectSeq(page, LAMBDA e : selector \in e.sel)

\* String(item).includes(needle) for a dataLayer entry
ItemStrIncludes(item, needle) ==
  CASE item.kind = "arguments" -> needle = "Arguments"
    [] item.kind = "array" -> \E i \in 1..Len(item.args) : item.args[i][1] = needle
    [] OTHER -> FALSE

\* The Shopify test without the container events gtm.js, gtm.dom and gtm.load.
ShopifyItemWithoutContainerEvents(item) ==
  \/ ItemStrIncludes(item, "Arguments")
  \/ \E n \in {"Shopify", "shopify", "cart", "product_variant_id", "checkout"} :
       ItemStrIncludes(item, n)
  \/ item.pageType \in {"product", "collection", "cart", "page"}

\* The Shopify test of detectGoogleTagManager's dataLayer loop, for a non-null entry.
ShopifyItem(item) ==
  \/ ItemStrIncludes(item, "Arguments")
  \/ item.event \in {"gtm.js", "gtm.dom", "gtm.load"}
  \/ \E n \in {"Shopify", "shopify", "cart", "product_variant_id", "checkout"} :
       ItemStrIncludes(item, n)
  \/ item.pageType \in {"product", "collection", "cart", "page"}

\* The Wix test of the same loop.
WixItem(item) ==
  \/ ItemStrIncludes(item, "wix") \/ ItemStrIncludes(item, "Wix")
  \/ (item.pageId # "" /\ item.pageType # "")

\* ------------------------------------------------------------- TagResult
TagTypeGTM == "Google Tag Manager"
TagTypeGA4 == "GA4"
TagTypeGoogleAds == "Google Ads Conversion"
TagTypeMetaPixel == "Meta Pixel"
TagNames == <<TagTypeGTM, TagTypeGA4, TagTypeGoogleAds, TagTypeMetaPixel>>

CONNECTED == "Connected"
MISCONFIGURED == "Misconfigured"
INCOMPLETE == "Incomplete Setup"
NOT_FOUND == "Not Found"
ERROR == "Error"

\* A catch block that returns status and reason only.
ErrorResultUnnamed(name) ==
  [name |-> "", isPresent |-> FALSE, status |-> ERROR, id |-> NoId, ids |-> <<>>,
   statusReason |-> "error"]

\* The catch block of every detector.  The result carries neither id nor ids.
ErrorResult(name) ==
  [name |-> name, isPresent |-> FALSE, status |-> ERROR, id |-> NoId, ids |-> <<>>,
   statusReason |-> "error"]

\* The status mapping of detectGoogleTagManager, detectGA4 and detectMetaPixel.
MapStatus(s) ==
  IF s = "Connected" THEN CONNECTED
  ELSE IF s = "Misconfigured" THEN MISCONFIGURED
  ELSE IF s = "Incomplete Setup" THEN INCOMPLETE
  ELSE NOT_FOUND

\* The mapping of the other three detectors in detectGoogleAds' place.
MapStatusLikeOthers(s) == MapStatus(s)

\* The status mapping of detectGoogleAds, which tests for 'Incomplete'.
MapStatusGoogleAds(s) ==
  IF s = "Connected" THEN CONNECTED
  ELSE IF s = "Misconfigured" THEN MISCONFIGURED
  ELSE IF s = "Incomplete" THEN INCOMPLETE
  ELSE NOT_FOUND

Result(name, data, status) ==
  [name |-> name, isPresent |-> data.isPresent, status |-> status, id |-> data.id,
   ids |-> data.ids, statusReason |-> data.statusReason]

\* ------------------------------------------------ detectGoogleTagManager
\* The first dataLayer entry at which the Shopify/Wix loop breaks, 0 if none.
GtmLoopBreak(dl) == First({i \in 1..Len(dl) : dl[i].kind # "null" /\ (ShopifyItem(dl[i]) \/ WixItem(dl[i]))})

\* The loop reads item.event of a null entry (typeof null === 'object') unless
\* it broke at an earlier entry: a TypeError, which rejects page.evaluate.
GtmEvalThrows(obs) ==
  LET n == First({i \in 1..Len(obs.dataLayer) : obs.dataLayer[i].kind = "null"})
      b == GtmLoopBreak(obs.dataLayer)
  IN  obs.hasDataLayer /\ n > 0 /\ (b = 0 \/ n < b)

\* The object the page.evaluate callback of detectGoogleTagManager returns.
GtmData(obs, networkIds) ==
  LET page == obs.page
      dl == obs.dataLayer
      hasGtmScript == Query(page, "script[src*=googletagmanager.com/gtm.js]")
                      \/ Query(page, "iframe[src*=googletagmanager.com/ns.html]")
      hasGtmInit == HtmlIncludes(page, "googletagmanager.com/gtm.js?id=GTM-")
      hasGtmInitFunction == HtmlIncludes(page, "(window,document,'script','dataLayer','GTM-")
      hasNetworkGtm == Len(networkIds) > 0
      hasGtm == hasGtmScript \/ hasGtmInit \/ hasGtmInitFunction \/ hasNetworkGtm
      hasDataLayer == obs.hasDataLayer
      hasActiveDataLayer == hasDataLayer /\ Len(dl) > 0
      b == GtmLoopBreak(dl)
      hasShopifyGtm == hasDataLayer /\ b > 0 /\ ShopifyItem(dl[b])
      hasWixGtm == hasDataLayer /\ b > 0 /\ ~ShopifyItem(dl[b])
      hasGtmActivation ==
        hasActiveDataLayer
        /\ \/ \E i \in 1..Len(dl) : dl[i].kind # "null" /\ dl[i].event = "gtm.js"
           \/ \E i \in 1..Len(dl) : /\ dl[i].kind \in {"arguments", "array"}
                                    /\ Len(dl[i].args) >= 2
                                    /\ dl[i].args[1] \in {<<"js">>, <<"config">>}
      fromNetwork == SelectSeq(networkIds, LAMBDA id : StartsWith(id, <<"GTM-">>))
      scripts == SelectSeq(page, LAMBDA e : e.script)
      fromScripts == AddAll(fromNetwork,
                       Flatten([i \in 1..Len(scripts) |-> Matches(scripts[i].textIds, <<"GTM-">>)]))
      gtmScripts == QueryAll(page, "script[src*=googletagmanager.com/gtm.js]")
      fromSrc == AddAll(fromScripts,
                   Flatten([i \in 1..Len(gtmScripts) |-> FirstOf(Matches(gtmScripts[i].srcIds, <<"GTM-">>))]))
      gtmIframes == QueryAll(page, "iframe[src*=googletagmanager.com/ns.html]")
      fromIframes == AddAll(fromSrc,
                       Flatten([i \in 1..Len(gtmIframes) |-> FirstOf(Matches(gtmIframes[i].srcIds, <<"GTM-">>))]))
      fromHtml == IF Len(fromIframes) = 0 \/ hasShopifyGtm \/ hasWixGtm
                  THEN AddAll(fromIframes, Matches(HtmlIds(page), <<"GTM-">>))
                  ELSE fromIframes
      gtmIds == IF hasGtm \/ hasShopifyGtm \/ hasWixGtm THEN fromHtml ELSE fromNetwork
      mcIds == SelectSeq(networkIds, LAMBDA id : StartsWith(id, <<"MC-">>))
      hasGtmParams == \E i \in 1..Len(networkIds) : StartsWith(networkIds[i], <<"GTM-", "PARAM:">>)
      hasDestinationRequest == GTM_DETECTED_VIA_DESTINATION \in Range(networkIds)
      st1 == IF hasNetworkGtm \/ hasGtm \/ hasShopifyGtm \/ hasWixGtm \/ hasActiveDataLayer
             THEN IF (Len(gtmIds) = 0 /\ ~hasShopifyGtm /\ ~hasWixGtm) /\ ~hasNetworkGtm
                     /\ Len(mcIds) = 0 /\ ~hasDestinationRequest /\ ~hasGtmParams
                  THEN <<"Incomplete Setup", "gtm-no-id">>
                  ELSE IF ~hasDataLayer /\ ~hasGtmActivation /\ ~hasShopifyGtm /\ ~hasWixGtm
                          /\ ~hasNetworkGtm /\ ~hasDestinationRequest /\ ~hasGtmParams
                       THEN <<"Misconfigured", "gtm-no-datalayer">>
                       ELSE <<"Connected", "gtm-connected">>
             ELSE <<"Not Found", "gtm-none">>
      st2 == IF hasShopifyGtm /\ hasActiveDataLayer /\ st1[1] # "Connected"
             THEN <<"Connected", "gtm-shopify">> ELSE st1
      st3 == IF hasWixGtm /\ hasActiveDataLayer /\ st2[1] # "Connected"
             THEN <<"Connected", "gtm-wix">> ELSE st2
      st4 == IF (hasNetworkGtm \/ hasDestinationRequest \/ hasGtmParams \/ Len(mcIds) > 0)
                /\ st3[1] # "Connected"
             THEN <<"Connected", "gtm-network">> ELSE st3
      ids == IF Len(mcIds) > 0 THEN gtmIds \o mcIds ELSE gtmIds
  IN  [isPresent |-> hasGtm \/ hasShopifyGtm \/ hasWixGtm \/ hasActiveDataLayer \/ hasNetworkGtm
                     \/ hasDestinationRequest \/ hasGtmParams \/ Len(mcIds) > 0,
       ids |-> ids,
       id |-> PrimaryId(ids),
       status |-> st4[1],
       statusReason |-> st4[2]]

\* detectGoogleTagManager: fault is a rejection of page.evaluate by the browser.
DetectGoogleTagManager(obs, networkIds, fault) ==
  IF fault \/ GtmEvalThrows(obs) THEN ErrorResult(TagTypeGTM)
  ELSE LET d == GtmData(obs, networkIds) IN Result(TagTypeGTM, d, MapStatus(d.status))

\* ------------------------------------------------------------- detectGA4
\* The string values JSON.stringify(item) and Object.entries(item) show:
\* positional elements, then properties.
ItemTokens(item) == item.args \o [i \in 1..Len(item.props) |-> item.props[i][2]]

\* document.documentElement.innerHTML.includes('GTM-')
HtmlIncludesGtm(page) == HtmlIncludesId(page, <<"GTM-">>)

\* A looser test: any script served by googletagmanager.com counts.
HasGtmHintAnyGoogleTag(page) ==
  \/ Query(page, "script[src*=googletagmanager.com/gtm.js]")
  \/ Query(page, "script[src*=googletagmanager.com/gtag/js]")
  \/ HtmlIncludesGtm(page)

\* The "GTM present" test shared by detectGA4, detectGoogleAds and detectMetaPixel.
HasGtmHint(page) ==
  Query(page, "script[src*=googletagmanager.com/gtm.js]") \/ HtmlIncludesGtm(page)

\* The identifiers one dataLayer entry adds in detectGA4's loop, in order.  The
\* three tests share one try block: JSON.stringify of a cyclic entry throws and
\* ends the entry's processing.
Ga4ItemIds(item) ==
  LET config == IF item.kind \in {"arguments", "array"} /\ Len(item.args) >= 2
                   /\ item.args[1] = <<"config">> /\ StartsWith(item.args[2], <<"G-">>)
                THEN <<item.args[2]>> ELSE <<>>
      json == IF item.kind \in {"object", "arguments"}
              THEN Matches(ItemTokens(item), <<"G-">>) ELSE <<>>
      str == IF ItemStrIncludes(item, "G-") THEN Matches(item.args, <<"G-">>) ELSE <<>>
  IN  IF item.kind = "null" THEN <<>>
      ELSE IF item.kind = "circular" THEN config
      ELSE config \o json \o str

\* The object the page.evaluate callback of detectGA4 returns.
Ga4Data(obs, networkIds) ==
  LET page == obs.page
      dl == obs.dataLayer
      hasGa4Script ==
        \/ Query(page, "script[src*=google-analytics.com/analytics.js]")
        \/ Query(page, "script[src*=googletagmanager.com/gtag/js]")
        \/ Query(page, "script[src*=google-analytics.com/g/collect]")
        \/ HtmlIncludes(page, "gtag('config', 'G-")
        \/ HtmlIncludes(page, "destination?id=G-")
      hasGtm == HasGtmHint(page)
      fromDataLayer == IF obs.hasDataLayer
                       THEN AddAll(networkIds, Flatten([i \in 1..Len(dl) |-> Ga4ItemIds(dl[i])]))
                       ELSE networkIds
      hasGtagFunction == "gtag" \in obs.globals
      hasGtag == hasGtagFunction
      scripts == SelectSeq(page, LAMBDA e : e.script)
      fromScripts == AddAll(fromDataLayer,
                       Flatten([i \in 1..Len(scripts) |-> Matches(scripts[i].textIds, <<"G-">>)]))
      fromHtml == AddAll(fromScripts, Matches(HtmlIds(page), <<"G-">>))
      googleTagScripts == QueryAll(page, "script[src*=googletagmanager.com/gtag/js?id=G-]")
      ga4Ids == AddAll(fromHtml,
                  Flatten([i \in 1..Len(googleTagScripts) |->
                             FirstOf(Matches(googleTagScripts[i].srcIds, <<"G-">>))]))
      st == IF Len(networkIds) > 0 THEN <<"Connected", "ga4-network">>
            ELSE IF Len(ga4Ids) > 0
                 THEN IF hasGtag THEN <<"Connected", "ga4-gtag">>
                      ELSE IF hasGtagFunction THEN <<"Connected", "ga4-gtag-function">>
                      ELSE <<"Connected", "ga4-id-in-page">>
            ELSE IF hasGa4Script THEN <<"Incomplete Setup", "ga4-no-id">>
            ELSE IF hasGtm THEN <<"Incomplete Setup", "ga4-gtm-detected">>
            ELSE <<"Not Found", "ga4-none">>
  IN  [isPresent |-> Len(ga4Ids) > 0 \/ hasGa4Script \/ st[1] # "Not Found",
       ids |-> ga4Ids,
       id |-> PrimaryId(ga4Ids),
       status |-> st[1],
       statusReason |-> st[2]]

\* detectGA4 with a callback that is not handed the listener's identifiers.
DetectGA4WithoutRequests(obs, networkIds, fault) ==
  IF fault THEN ErrorResult(TagTypeGA4)
  ELSE LET d == Ga4Data(obs, <<>>) IN Result(TagTypeGA4, d, MapStatus(d.status))

\* detectGA4: nothing in its callback throws on page content.
DetectGA4(obs, networkIds, fault) ==
  IF fault THEN ErrorResult(TagTypeGA4)
  ELSE LET d == Ga4Data(obs, networkIds) IN Result(TagTypeGA4, d, MapStatus(d.status))

\* ------------------------------------------------------- detectGoogleAds
\* What the patterns of the inline-script loop push for one script: per pattern,
\* the whole match.  /google_conversion_id\s*=\s*(\d+)/ comes first and its
\* whole match is not a digit string, so it is pushed as it stands; /AW-[\w\d-]+/
\* is second.  The other three patterns push further raw matches that, like the
\* first one's, do not start with 'AW-'.
AdsScriptMatches(textIds) ==
  SelectSeq(textIds, LAMBDA id : StartsWith(id, <<"google_conversion_id=">>))
  \o Matches(textIds, <<"AW-">>)

\* The matches of the full-HTML pattern, in document order: AW- identifiers and
\* raw "conversion_id = <digits>" matches.
AdsHtmlMatches(ids) ==
  LET hit == SelectSeq(ids, LAMBDA id : StartsWith(id, <<"AW-">>)
                                        \/ StartsWith(id, <<"google_conversion_id=">>))
  IN  [i \in 1..Len(hit) |-> IF StartsWith(hit[i], <<"AW-">>) THEN SubSeq(hit[i], 1, 2)
                             ELSE <<"conversion_id=">> \o Tail(hit[i])]

\* item['event'].toLowerCase().includes('conversion')
IsConversionEvent(event) == event \in {"conversion", "Conversion"}

\* A looser test: a send_to property naming an AW- identifier counts as well.
ConversionEntryOrSendTo(item) ==
  \/ IsConversionEvent(item.event)
  \/ \E i \in 1..Len(item.props) :
       item.props[i][1] = "send_to" /\ StartsWith(item.props[i][2], <<"AW-">>)

\* The test that sets hasConversionEvent for one dataLayer entry: its event only.
ConversionEntry(item) == IsConversionEvent(item.event)

\* The object the page.evaluate callback of detectGoogleAds returns.
GadsData(obs, networkIds) ==
  LET page == obs.page
      dl == obs.dataLayer
      hasGads == Query(page, "script[src*=googleadservices.com/pagead/conversion]")
      scripts == SelectSeq(page, LAMBDA e : e.script)
      fromScripts == AddAll(networkIds,
                       Flatten([i \in 1..Len(scripts) |-> AdsScriptMatches(scripts[i].textIds)]))
      fromHtml == AddAll(fromScripts, AdsHtmlMatches(HtmlIds(page)))
      hasGtm == HasGtmHint(page)
      objects == IF obs.hasDataLayer THEN SelectSeq(dl, LAMBDA it : it.kind # "null") ELSE <<>>
      hasConversionEvent == \E i \in 1..Len(objects) : ConversionEntry(objects[i])
      dlIds == Flatten([i \in 1..Len(objects) |-> Matches(ItemTokens(objects[i]), <<"AW-">>)])
      gadsIds == AddAll(fromHtml, dlIds)
      foundInDataLayer == Len(gadsIds) > Len(fromHtml)
      hasGtagAds == "gtag" \in obs.globals
      hasGoogleAdsGlobals == "google_conversion_id" \in obs.globals
      uniqueGadsIds == SelectSeq(AddAll(<<>>, gadsIds), LAMBDA id : StartsWith(id, <<"AW-">>))
      isPresent == Len(networkIds) > 0 \/ Len(uniqueGadsIds) > 0 \/ hasGads
                   \/ foundInDataLayer \/ hasGtagAds \/ hasGoogleAdsGlobals
      st1 == IF isPresent
             THEN IF Len(uniqueGadsIds) = 0 /\ Len(networkIds) = 0
                  THEN <<"Incomplete Setup", "gads-no-id">>
                  ELSE IF hasConversionEvent \/ hasGoogleAdsGlobals \/ hasGtagAds
                          \/ Len(networkIds) > 0
                       THEN <<"Connected", "gads-connected">>
                       ELSE <<"Incomplete", "gads-no-conversion">>
             ELSE <<"Not Found", "gads-none">>
      st2 == IF st1[1] = "Not Found" /\ hasGtm /\ HtmlIncludes(page, "googleadservices")
             THEN <<"Incomplete Setup", "gads-gtm-detected">> ELSE st1
  IN  [isPresent |-> isPresent,
       ids |-> uniqueGadsIds,
       id |-> PrimaryId(uniqueGadsIds),
       status |-> st2[1],
       statusReason |-> st2[2]]

\* detectGoogleAds reading the page only when a gtag function is defined.
DetectGoogleAdsWhenGtag(obs, networkIds, fault) ==
  IF fault THEN ErrorResult(TagTypeGoogleAds)
  ELSE LET d == GadsData(IF "gtag" \in obs.globals THEN obs ELSE [obs EXCEPT !.page = <<>>],
                         networkIds)
       IN  Result(TagTypeGoogleAds, d, MapStatusGoogleAds(d.status))

\* detectGoogleAds: its dataLayer loop catches what an entry throws.
DetectGoogleAds(obs, networkIds, fault) ==
  IF fault THEN ErrorResult(TagTypeGoogleAds)
  ELSE LET d == GadsData(obs, networkIds)
       IN  Result(TagTypeGoogleAds, d, MapStatusGoogleAds(d.status))

\* ------------------------------------------------------- detectMetaPixel
\* JSON.stringify(item) names fbq, facebook or FB_PIXEL
MetaItem(item) == item.kind \notin {"null", "circular"} /\ item.json \cap {"fbq", "facebook", "FB_PIXEL"} # {}

\* dataLayer.some(...) stops at the first entry that names the pixel; a cyclic
\* entry before it makes JSON.stringify throw, which rejects page.evaluate.
MetaEvalThrows(obs) ==
  LET c == First({i \in 1..Len(obs.dataLayer) : obs.dataLayer[i].kind = "circular"})
      f == First({i \in 1..Len(obs.dataLayer) : MetaItem(obs.dataLayer[i])})
  IN  obs.hasDataLayer /\ c > 0 /\ (f = 0 \/ c < f)

\* The object the page.evaluate callback of detectMetaPixel returns.
MetaData(obs, networkIds) ==
  LET page == obs.page
      dl == obs.dataLayer
      hasMetaPixelScript ==
        \/ Query(page, "script[src*=connect.facebook.net]")
        \/ Query(page, "script[src*=facebook.net/en_US/fbevents.js]")
        \/ Query(page, "script[src*=fbevents.js]")
        \/ Query(page, "noscript[src*=facebook.com/tr]")
      hasFbqFunction == "fbq" \in obs.globals
      hasFbqInit == HtmlIncludes(page, "fbq('init',")
      hasFbqInDataLayer == obs.hasDataLayer /\ \E i \in 1..Len(dl) : MetaItem(dl[i])
      hasTrackingImage == Query(page, "noscript img[src*=facebook.com/tr]")
                          \/ HtmlIncludes(page, "facebook.com/tr?id=")
      hasFBConnect == Query(page, "script[src*=sdk.js]") /\ HtmlIncludes(page, "FB.init")
      hasNetworkPixel == Len(networkIds) > 0
      hasMetaPixel == hasMetaPixelScript \/ hasFbqFunction \/ hasFbqInit \/ hasFbqInDataLayer
                      \/ hasTrackingImage \/ hasFBConnect \/ hasNetworkPixel
      pixelIds == SelectSeq(networkIds, LAMBDA id : id # META_PIXEL_DETECTED_VIA_NETWORK)
      hasGtm == HasGtmHint(page)
      st1 == IF hasMetaPixel
             THEN IF Len(pixelIds) = 0 /\ ~hasNetworkPixel
                  THEN <<"Incomplete Setup", "meta-no-id">>
                  ELSE IF hasFbqFunction \/ hasFbqInit \/ hasFbqInDataLayer \/ hasTrackingImage
                          \/ hasNetworkPixel
                       THEN <<"Connected", "meta-connected">>
                       ELSE <<"Misconfigured", "meta-unclear-init">>
             ELSE IF hasGtm /\ HtmlIncludes(page, "facebook")
                  THEN <<"Incomplete Setup", "meta-gtm-detected">>
                  ELSE <<"Not Found", "meta-none">>
      st2 == IF Len(pixelIds) > 0 /\ st1[1] # "Connected"
             THEN <<"Connected", "meta-id-found">> ELSE st1
      st3 == IF META_PIXEL_DETECTED_VIA_NETWORK \in Range(networkIds) /\ st2[1] # "Connected"
             THEN <<"Connected", "meta-network">> ELSE st2
  IN  [isPresent |-> hasMetaPixel,
       ids |-> pixelIds,
       id |-> PrimaryId(pixelIds),
       status |-> st3[1],
       statusReason |-> st3[2]]

\* detectMetaPixel with isPresent taken from the identifiers found.
DetectMetaPixelPresentByIds(obs, networkIds, fault) ==
  IF fault \/ MetaEvalThrows(obs) THEN ErrorResult(TagTypeMetaPixel)
  ELSE LET d == MetaData(obs, networkIds)
       IN  Result(TagTypeMetaPixel, [d EXCEPT !.isPresent = d.ids # <<>>], MapStatus(d.status))

\* detectMetaPixel
DetectMetaPixel(obs, networkIds, fault) ==
  IF fault \/ MetaEvalThrows(obs) THEN ErrorResult(TagTypeMetaPixel)
  ELSE LET d == MetaData(obs, networkIds) IN Result(TagTypeMetaPixel, d, MapStatus(d.status))

\* ------------------------------------------------------------- detectCms
\* Confidences are in hundredths.
NoCms == [name |-> "", confidence |-> 0]
Cms(name, confidence) == [name |-> name, confidence |-> confidence]

HIGH == 3
MEDIUM == 2
LOW == 1

\* The WordPress block up to its last test.  document.body.className is read
\* only when none of the three globals is defined.
WordpressHigh(obs) ==
  \E s \in {"link[href*=/wp-content/]", "script[src*=/wp-includes/]", "body.wp-admin",
            "#wpadminbar", ".wp-block-"} : Query(obs.page, s)
WordpressMedium(obs) ==
  \/ \E n \in {"/wp-content/", "/wp-includes/", "/wp-json/", "wp-emoji"} : HtmlIncludes(obs.page, n)
  \/ Query(obs.page, "link[href*=wp-]")
WordpressGlobals(obs) == obs.globals \cap {"wp", "wpApiSettings", "wc"} # {}
\* document.body is null: reading className throws, inside the block's try.
WordpressThrows(obs) == ~WordpressGlobals(obs) /\ ~obs.hasBody
WordpressBody(obs) == ~WordpressGlobals(obs) /\ obs.hasBody /\ Query(obs.page, "body.wordpress")

wordpressScore(obs) ==
  (IF WordpressHigh(obs) THEN HIGH ELSE 0) + (IF WordpressMedium(obs) THEN MEDIUM ELSE 0)
  + (IF WordpressGlobals(obs) \/ WordpressBody(obs) THEN HIGH ELSE 0)

ShopifyHigh(obs) ==
  "Shopify" \in obs.globals \/ HtmlIncludes(obs.page, "cdn.shopify.com")
  \/ HtmlIncludes(obs.page, "Shopify.theme")
ShopifyMedium(obs) ==
  \/ \E n \in {"shopify-section", "shopify-payment-button", "/apps/checkout", "myshopify.com"} :
       HtmlIncludes(obs.page, n)
  \/ Query(obs.page, "link[href*=shopify]") \/ Query(obs.page, "script[src*=shopify]")
ShopifyLow(obs) ==
  \/ HtmlIncludes(obs.page, "shopify-custom-currency") \/ HtmlIncludes(obs.page, "shopify-buy")
  \/ Query(obs.page, ".shopify-buy") \/ Query(obs.page, "[data-shopify]")

\* The matched tiers counted instead of weighted.
shopifyScoreCounted(obs) ==
  (IF ShopifyHigh(obs) THEN 1 ELSE 0) + (IF ShopifyMedium(obs) THEN 1 ELSE 0)
  + (IF ShopifyLow(obs) THEN 1 ELSE 0)

shopifyScore(obs) ==
  (IF ShopifyHigh(obs) THEN HIGH ELSE 0) + (IF ShopifyMedium(obs) THEN MEDIUM ELSE 0)
  + (IF ShopifyLow(obs) THEN LOW ELSE 0)

WixHigh(obs) ==
  obs.globals \cap {"wixBiSession", "wixPerformance", "wixEmbedsAPI"} # {}
  \/ HtmlIncludes(obs.page, "static.wixstatic.com")
WixMedium(obs) ==
  \/ \E n \in {"X-Wix-", "static.parastorage.com", "wixsite.com", "wixcode-"} :
       HtmlIncludes(obs.page, n)
  \/ Query(obs.page, "[data-mesh-id]")
WixLow(obs) ==
  \/ HtmlIncludes(obs.page, "wix-")
  \/ \E s \in {"img[src*=wix]", "[data-wix]", "[data-hook*=wix]"} : Query(obs.page, s)

wixScore(obs) ==
  (IF WixHigh(obs) THEN HIGH ELSE 0) + (IF WixMedium(obs) THEN MEDIUM ELSE 0)
  + (IF WixLow(obs) THEN LOW ELSE 0)

WordpressThreshold == 5
ShopifyThreshold == 3
WixThreshold == 3

\* The first word of the content taken before the known names are tested.
GeneratorResultFirstWord(g) ==
  LET known == <<"WordPress", "Shopify", "Wix", "Squarespace", "Webflow", "Drupal", "Joomla">>
      k == First({i \in 1..Len(known) : known[i] \in g.names})
  IN  IF g.firstLong THEN Cms(g.first, 70)
      ELSE IF k > 0 THEN Cms(known[k], 90)
      ELSE NoCms

\* What one <meta name="generator"> returns, NoCms when the loop goes on.
GeneratorResult(g) ==
  LET known == <<"WordPress", "Shopify", "Wix", "Squarespace", "Webflow", "Drupal", "Joomla">>
      k == First({i \in 1..Len(known) : known[i] \in g.names})
  IN  IF k > 0 THEN Cms(known[k], 90)
      ELSE IF g.firstLong THEN Cms(g.first, 70)
      ELSE NoCms

\* The meta-generator loop: the first generator tag that returns.
GeneratorLoop(page) ==
  LET metas == SelectSeq(page, LAMBDA e : e.generator.first # "")
      r == First({i \in 1..Len(metas) : GeneratorResult(metas[i].generator) # NoCms})
  IN  IF r > 0 THEN GeneratorResult(metas[r].generator) ELSE NoCms

\* The partial match taken by the highest score instead of the platform order.
PartialMatchByHighest(wp, sh, wx) ==
  IF wp > 0 /\ wp >= sh /\ wp >= wx THEN Cms("WordPress", IF wp >= 2 THEN 80 ELSE 60)
  ELSE IF sh > 0 /\ sh >= wx THEN Cms("Shopify", IF sh >= 2 THEN 70 ELSE 50)
  ELSE IF wx > 0 THEN Cms("Wix", IF wx >= 2 THEN 70 ELSE 50)
  ELSE NoCms

\* The last returns of detectCms: partial matches with lower confidence.
PartialMatch(wp, sh, wx) ==
  IF wp > 0 THEN Cms("WordPress", IF wp >= 2 THEN 80 ELSE 60)
  ELSE IF sh > 0 THEN Cms("Shopify", IF sh >= 2 THEN 70 ELSE 50)
  ELSE IF wx > 0 THEN Cms("Wix", IF wx >= 2 THEN 70 ELSE 50)
  ELSE NoCms

\* detectCms.  NoCms stands for undefined.
DetectCms(obs) ==
  LET wp == wordpressScore(obs)
      sh == shopifyScore(obs)
      wx == wixScore(obs)
      gen == GeneratorLoop(obs.page)
  IN  IF wp >= WordpressThreshold /\ ~WordpressThrows(obs) THEN Cms("WordPress", 95)
      ELSE IF sh >= ShopifyThreshold THEN Cms("Shopify", 90)
      ELSE IF wx >= WixThreshold THEN Cms("Wix", 90)
      ELSE IF gen # NoCms THEN gen
      ELSE IF \E n \in {"drupal.", "/sites/default/files/", "/sites/all/", "drupalSettings"} :
                HtmlIncludes(obs.page, n)
              \/ Query(obs.page, "body.path-frontpage")
           THEN Cms("Drupal", 90)
      ELSE IF \E n \in {"/media/jui/", "/media/system/", "joomla", "Joomla!"} :
                HtmlIncludes(obs.page, n)
           THEN Cms("Joomla", 90)
      ELSE PartialMatch(wp, sh, wx)

\* ----------------------------------------------- generateRecommendations
\* A recommendation decided by the status instead of isPresent.
RecommendUnlessConnected(tags, name, verb, subject) ==
  IF \E i \in 1..Len(tags) : tags[i].name = name /\ tags[i].status = CONNECTED THEN <<>>
  ELSE << <<verb, subject>> >>

\* One "if (!has...) recommendations.push(...)" of generateRecommendations.
\* A recommendation is <<first word, subject>>.
Recommend(tags, name, verb, subject) ==
  IF \E i \in 1..Len(tags) : tags[i].name = name /\ tags[i].isPresent THEN <<>>
  ELSE << <<verb, subject>> >>

\* The recommendations in the order of detectTags' results.
generateRecommendationsInResultOrder(tags) ==
  LET hasGtm == \E i \in 1..Len(tags) : tags[i].name = TagTypeGTM /\ tags[i].isPresent
      verb == IF hasGtm THEN "Add" ELSE "Implement"
  IN  Recommend(tags, TagTypeGTM, "Implement", "Google Tag Manager")
      \o Recommend(tags, TagTypeGA4, verb, "Google Analytics 4")
      \o Recommend(tags, TagTypeGoogleAds, verb, "Google Ads conversion tracking")
      \o Recommend(tags, TagTypeMetaPixel, verb, "Meta Pixel")

generateRecommendations(tags) ==
  LET hasGtm == \E i \in 1..Len(tags) : tags[i].name = TagTypeGTM /\ tags[i].isPresent
      verb == IF hasGtm THEN "Add" ELSE "Implement"
  IN  Recommend(tags, TagTypeGTM, "Implement", "Google Tag Manager")
      \o Recommend(tags, TagTypeGA4, verb, "Google Analytics 4")
      \o Recommend(tags, TagTypeMetaPixel, verb, "Meta Pixel")
      \o Recommend(tags, TagTypeGoogleAds, verb, "Google Ads conversion tracking")

\* ------------------------------------------------- the bounded inputs
NoGenerator == [names |-> {}, first |-> "", firstLong |-> FALSE]
Elem(sel, inc, script, srcIds, textIds) ==
  [sel |-> sel, inc |-> inc, script |-> script, srcIds |-> srcIds, textIds |-> textIds,
   generator |-> NoGenerator]
MetaGenerator(names, first, firstLong) ==
  [sel |-> {}, inc |-> {}, script |-> FALSE, srcIds |-> <<>>, textIds |-> <<>>,
   generator |-> [names |-> names, first |-> first, firstLong |-> firstLong]]

GTM_AAA == <<"GTM-", "AAA">>
GTM_BBB == <<"GTM-", "BBB">>
G_AAA == <<"G-", "AAA">>
G_BBB == <<"G-", "BBB">>
G_CCC == <<"G-", "CCC">>
MC_AAA == <<"MC-", "AAA">>
AW_111 == <<"AW-", "111">>
AW_318511509 == <<"AW-", "318511509">>
PIXEL_ID == <<"1234567890">>
FBQ_INIT_99999 == <<"fbq('init','", "99999">>

\* <script src="https://www.googletagmanager.com/gtm.js?id=GTM-AAA">
E_gtmScript == Elem({"script[src*=googletagmanager.com/gtm.js]"},
                    {"googletagmanager.com/gtm.js?id=GTM-"}, TRUE, <<GTM_AAA>>, <<>>)
\* the inline container snippet ending (window,document,'script','dataLayer','GTM-BBB')
E_gtmSnippet == Elem({}, {"(window,document,'script','dataLayer','GTM-"}, TRUE, <<>>, <<GTM_BBB>>)
\* <script>var containerId = 'GTM-BBB';</script>
E_gtmVar == Elem({}, {}, TRUE, <<>>, <<GTM_BBB>>)
\* <!-- Google Tag Manager GTM-BBB -->
E_gtmComment == Elem({}, {}, FALSE, <<>>, <<GTM_BBB>>)
\* <script src=".../gtm.js?id=gtm-x1">: the container script with an id the patterns do not match
E_gtmNoId == Elem({"script[src*=googletagmanager.com/gtm.js]"}, {}, TRUE, <<>>, <<>>)
\* <script src="https://www.googletagmanager.com/gtag/js?id=G-AAA">
E_ga4Script == Elem({"script[src*=googletagmanager.com/gtag/js]",
                     "script[src*=googletagmanager.com/gtag/js?id=G-]"}, {}, TRUE, <<G_AAA>>, <<>>)
\* <script>gtag('config', 'G-BBB');</script>
E_ga4Config == Elem({}, {"gtag('config', 'G-"}, TRUE, <<>>, <<G_BBB>>)
\* <script src="https://www.google-analytics.com/analytics.js">
E_uaScript == Elem({"script[src*=google-analytics.com/analytics.js]"}, {}, TRUE, <<>>, <<>>)
\* <script src="https://www.googleadservices.com/pagead/conversion.js">
E_adsScript == Elem({"script[src*=googleadservices.com/pagead/conversion]"},
                    {"googleadservices"}, TRUE, <<>>, <<>>)
\* <script>gtag('config', 'AW-111');</script>
E_adsConfig == Elem({}, {}, TRUE, <<>>, <<AW_111>>)
\* <script>gtag('config', 'AW-318511509');</script>
E_adsSpecial == Elem({}, {}, TRUE, <<>>, <<AW_318511509>>)
\* <script>var google_conversion_id = 333;</script>
E_adsLegacy == Elem({}, {}, TRUE, <<>>, << <<"google_conversion_id=", "333">> >>)
\* <script src="https://connect.facebook.net/en_US/fbevents.js">
E_fbScript == Elem({"script[src*=connect.facebook.net]", "script[src*=fbevents.js]",
                    "script[src*=facebook.net/en_US/fbevents.js]"}, {"facebook"}, TRUE, <<>>, <<>>)
\* <script>fbq('init', '99999');</script>
E_fbInit == Elem({}, {"fbq('init',"}, TRUE, <<>>, <<FBQ_INIT_99999>>)
\* <a href="https://www.facebook.com/shop">
E_fbLink == Elem({}, {"facebook"}, FALSE, <<>>, <<>>)
\* <noscript><img src="https://www.facebook.com/tr?id=99999&ev=PageView"></noscript>
E_fbImage == Elem({"noscript img[src*=facebook.com/tr]"}, {"facebook.com/tr?id=", "facebook"},
                  FALSE, <<>>, <<>>)

ElementCatalogue ==
  {E_gtmScript, E_gtmSnippet, E_gtmNoId, E_ga4Script, E_ga4Config, E_uaScript, E_adsScript,
   E_adsConfig, E_adsSpecial, E_adsLegacy, E_fbScript, E_fbInit, E_fbLink, E_fbImage}

Item(kind, event, args, pageType, pageId, props, json) ==
  [kind |-> kind, event |-> event, args |-> args, pageType |-> pageType, pageId |-> pageId,
   props |-> props, json |-> json]

\* {event: 'gtm.js', 'gtm.start': ...}
I_gtmJs == Item("object", "gtm.js", <<>>, "", "", <<>>, {})
\* gtag('config', 'G-CCC'): the arguments object pushed by the gtag stub
I_config == Item("arguments", "", << <<"config">>, G_CCC >>, "", "", <<>>, {})
\* dataLayer.push(['config', 'G-CCC'])
I_configArray == Item("array", "", << <<"config">>, G_CCC >>, "", "", <<>>, {})
\* {event: 'conversion', send_to: 'AW-111/label'}
I_conversion == Item("object", "conversion", <<>>, "", "",
                     << <<"send_to", <<"AW-", "111", "/label">> >> >>, {})
\* {send_to: 'AW-111/label'}
I_sendTo == Item("object", "", <<>>, "", "", << <<"send_to", <<"AW-", "111", "/label">> >> >>, {})
\* {pageType: 'product'}
I_pageType == Item("object", "", <<>>, "product", "", <<>>, {})
\* {pageId: 'c1dmp', pageType: 'static'}
I_wix == Item("object", "", <<>>, "static", "c1dmp", <<>>, {})
\* {event: 'fbq_loaded'}
I_fbq == Item("object", "fbq_loaded", <<>>, "", "", <<>>, {"fbq"})
\* {event: 'pageview', page_category: 'Conversion'}
I_plain == Item("object", "pageview", <<>>, "", "", << <<"page_category", <<"Conversion">> >> >>, {})
\* null
I_null == Item("null", "", <<>>, "", "", <<>>, {})
\* {event: 'gtm.click', 'gtm.element': node}, the node reaching itself again
I_circular == Item("circular", "gtm.click", <<>>, "", "", <<>>, {})

ItemCatalogue ==
  {I_gtmJs, I_config, I_configArray, I_conversion, I_sendTo, I_pageType, I_wix, I_fbq,
   I_plain, I_null, I_circular}

Url(site, query) == [site |-> site, query |-> query]

UrlCatalogue ==
  {Url("googletagmanager.com/gtm.js", << <<"id", GTM_AAA>> >>),
   Url("googletagmanager.com/gtag/destination", << <<"id", MC_AAA>>, <<"gtm", <<"45je">> >> >>),
   Url("googletagmanager.com/gtag/js", << <<"id", G_AAA>> >>),
   Url("google-analytics.com/g/collect", << <<"v", <<"2">> >>, <<"tid", G_BBB>> >>),
   Url("facebook.com/tr", << <<"id", PIXEL_ID>>, <<"ev", <<"PageView">> >> >>),
   Url("connect.facebook.net/fbevents.js", <<>>),
   Url("googleadservices.com/pagead", << <<"id", AW_111>> >>),
   Url("doubleclick.net", << <<"conversion_id", <<"222">> >> >>),
   Url("example.com/app.js", <<>>)}

GlobalCatalogue == {"gtag", "fbq", "google_conversion_id"}

\* ------------------------------------------------------------- the state
VARIABLES
  pc,                 \* where scanUrl stands
  page,               \* the document's elements, in document order
  hasDataLayer,       \* Array.isArray(window.dataLayer)
  dataLayer,          \* window.dataLayer
  globals,            \* the globals of the page that are defined
  hasBody,            \* document.body is not null
  gtmRequests, ga4Requests, googleAdsRequests, metaPixelRequests,
                      \* the listener's Sets, in insertion order
  net,                \* the arrays detectTags hands to the detectors
  tagResults,         \* detectTags' results
  seen,               \* per detector run: what its page.evaluate saw, whether it was rejected
  cmsResult,          \* detectCms' result
  recommendations,    \* generateRecommendations' result
  nEvents, nFaults    \* page events and rejections so far

VARIABLES
  flow,               \* where scanUrl stands around the scan of the page
  normalizedUrl,      \* the URL scanUrl was called with, after normalizeUrl
  browser,            \* scanBrowser: "null", "open" or "closed"
  scanPage,           \* the variable page of scanUrl: "null" or "open"
  closes,             \* calls of scanBrowser.close()
  navFailures         \* page.goto calls that threw

VARIABLES
  emailUnique,        \* the Users table has a unique index on email
  users,              \* the rows of the Users table, in insertion order
  userCalls           \* the createUser calls and Google sign-in callbacks in progress

flowVars == <<flow, normalizedUrl, browser, scanPage, closes, navFailures>>
userVars == <<emailUnique, users, userCalls>>

vars == <<pc, page, hasDataLayer, dataLayer, globals, hasBody, gtmRequests, ga4Requests,
          googleAdsRequests, metaPixelRequests, net, tagResults, seen, cmsResult,
          recommendations, nEvents, nFaults, flowVars, userVars>>

\* The variables of a scan, which the user routes leave alone.
vars_scan == <<pc, page, hasDataLayer, dataLayer, globals, hasBody, gtmRequests, ga4Requests,
               googleAdsRequests, metaPixelRequests, net, tagResults, seen, cmsResult,
               recommendations, nEvents, nFaults, flowVars>>

pageVars == <<page, hasDataLayer, dataLayer, globals, hasBody>>
requestVars == <<gtmRequests, ga4Requests, googleAdsRequests, metaPixelRequests>>
scanVars == <<pc, net, tagResults, seen, cmsResult, recommendations>>

\* The processes that call createUser or run the Google sign-in callback.
NProcs == 2
Procs == 1..NProcs

\* scanUrl between the attachment of the listener and the closing of the page.
ScanUnderWay ==
  /\ flow = "scan" /\ normalizedUrl = [scheme |-> "https://", host |-> "example.com"]
  /\ browser = "open" /\ scanPage = "open" /\ closes = 0 /\ navFailures = 0

NoCall == [kind |-> "none", at |-> "idle", email |-> "", googleId |-> "", outcome |-> ""]

\* No request to the user routes is in progress and the table is empty.
NoUserCalls == emailUnique = FALSE /\ users = <<>> /\ userCalls = [p \in Procs |-> NoCall]

NoNet == [gtm |-> <<>>, ga4 |-> <<>>, gads |-> <<>>, meta |-> <<>>]

\* What a page.evaluate callback reads when it runs.
Obs == [page |-> page, hasDataLayer |-> hasDataLayer, dataLayer |-> dataLayer,
        globals |-> globals, hasBody |-> hasBody]

\* A blank page, empty Sets and no result yet.
BlankPage ==
  /\ pc = "navigate"
  /\ page = <<>> /\ hasDataLayer = FALSE /\ dataLayer = <<>> /\ globals = {} /\ hasBody = TRUE
  /\ gtmRequests = <<>> /\ ga4Requests = <<>> /\ googleAdsRequests = <<>>
  /\ metaPixelRequests = <<>>
  /\ net = NoNet /\ tagResults = <<>> /\ seen = <<>> /\ cmsResult = NoCms
  /\ recommendations = <<>>
  /\ nEvents = 0 /\ nFaults = 0

\* scanUrl has created the page and attached the listener; navigation starts.
Init ==
  /\ BlankPage
  /\ ScanUnderWay /\ NoUserCalls

\* The page loads and its scripts run while scanUrl navigates and waits, up to
\* the call of detectTags; the page is taken to be at rest during detection.
PageOpen == pc \in {"navigate", "detectTags"} /\ nEvents < MaxEvents

\* page.on('request', ...)
OnRequest ==
  /\ PageOpen
  /\ \E url \in UrlCatalogue :
       /\ metaPixelRequests' = ListenMetaPixel(metaPixelRequests, url)
       /\ gtmRequests' = ListenGtm(gtmRequests, url)
       /\ ga4Requests' = ListenGa4(ga4Requests, url)
       /\ googleAdsRequests' = ListenGoogleAds(googleAdsRequests, url)
  /\ nEvents' = nEvents + 1
  /\ UNCHANGED <<flowVars, userVars, pageVars, scanVars, nFaults>>

\* The parser or a script adds an element to the document.
InsertElement ==
  /\ PageOpen
  /\ \E e \in ElementCatalogue : page' = Append(page, e)
  /\ nEvents' = nEvents + 1
  /\ UNCHANGED <<flowVars, userVars, hasDataLayer, dataLayer, globals, hasBody, requestVars, scanVars, nFaults>>

\* window.dataLayer = window.dataLayer || []
DataLayerInit ==
  /\ PageOpen /\ ~hasDataLayer
  /\ hasDataLayer' = TRUE
  /\ nEvents' = nEvents + 1
  /\ UNCHANGED <<flowVars, userVars, page, dataLayer, globals, hasBody, requestVars, scanVars, nFaults>>

\* window.dataLayer = window.dataLayer || []; dataLayer.push(item)
DataLayerPush ==
  /\ PageOpen
  /\ \E item \in ItemCatalogue : dataLayer' = Append(dataLayer, item)
  /\ hasDataLayer' = TRUE
  /\ nEvents' = nEvents + 1
  /\ UNCHANGED <<flowVars, userVars, page, globals, hasBody, requestVars, scanVars, nFaults>>

\* A script defines window.gtag, window.fbq or window.google_conversion_id.
DefineGlobal ==
  /\ PageOpen
  /\ \E g \in GlobalCatalogue \ globals : globals' = globals \cup {g}
  /\ nEvents' = nEvents + 1
  /\ UNCHANGED <<flowVars, userVars, page, hasDataLayer, dataLayer, hasBody, requestVars, scanVars, nFaults>>

\* JSON.stringify(window.dataLayer).includes('AW-318511509'); a cyclic entry
\* makes it throw, which the callback catches and answers false.
DataLayerNamesSpecial ==
  /\ hasDataLayer
  /\ \A i \in 1..Len(dataLayer) : dataLayer[i].kind # "circular"
  /\ \E i \in 1..Len(dataLayer) :
       dataLayer[i].kind # "null"
       /\ \E j \in 1..Len(ItemTokens(dataLayer[i])) : StartsWith(ItemTokens(dataLayer[i])[j], AW_318511509)

\* The search of the page content widened to every AW- identifier.
SettleSearchingAnyAdsId ==
  /\ pc = "navigate"
  /\ googleAdsRequests' = AddAll(googleAdsRequests, Matches(HtmlIds(page), <<"AW-">>))
  /\ pc' = "detectTags"
  /\ UNCHANGED <<flowVars, userVars, pageVars, gtmRequests, ga4Requests, metaPixelRequests, net, tagResults, seen,
                 cmsResult, recommendations, nEvents, nFaults>>

\* scanUrl after the waits: the targeted search for AW-318511509.
Settle ==
  /\ pc = "navigate"
  /\ googleAdsRequests' =
       IF AW_318511509 \in Range(googleAdsRequests) THEN googleAdsRequests
       ELSE IF HtmlIncludesId(page, AW_318511509) \/ DataLayerNamesSpecial
            THEN Append(googleAdsRequests, AW_318511509)
            ELSE googleAdsRequests
  /\ pc' = "detectTags"
  /\ UNCHANGED <<flowVars, userVars, pageVars, gtmRequests, ga4Requests, metaPixelRequests, net, tagResults, seen,
                 cmsResult, recommendations, nEvents, nFaults>>

\* The call of detectTags and its first lines: the copies of the four Sets.
StartDetectTags ==
  /\ pc = "detectTags"
  /\ net' = [gtm |-> gtmRequests, ga4 |-> ga4Requests, gads |-> googleAdsRequests,
             meta |-> metaPixelRequests]
  /\ pc' = "gtm"
  /\ UNCHANGED <<flowVars, userVars, pageVars, requestVars, tagResults, seen, cmsResult, recommendations,
                 nEvents, nFaults>>

\* The browser may reject a page.evaluate (the execution context was destroyed).
Faults == IF nFaults < MaxFaults THEN BOOLEAN ELSE {FALSE}

\* detectTags without the detectors' own catch blocks: a rejection ends it.
DetectedOrAborted(result, fault, next) ==
  /\ tagResults' = Append(tagResults, result)
  /\ seen' = Append(seen, [obs |-> Obs, fault |-> fault])
  /\ nFaults' = nFaults + (IF fault THEN 1 ELSE 0)
  /\ pc' = IF fault THEN "cms" ELSE next
  /\ UNCHANGED <<flowVars, userVars, pageVars, requestVars, net, cmsResult, recommendations, nEvents>>

\* One "results.push(await this.detect...(page, ...))" of detectTags.
Detected(result, fault, next) ==
  /\ tagResults' = Append(tagResults, result)
  /\ seen' = Append(seen, [obs |-> Obs, fault |-> fault])
  /\ nFaults' = nFaults + (IF fault THEN 1 ELSE 0)
  /\ pc' = next
  /\ UNCHANGED <<flowVars, userVars, pageVars, requestVars, net, cmsResult, recommendations, nEvents>>

DetectGtmStep ==
  /\ pc = "gtm"
  /\ \E fault \in Faults : Detected(DetectGoogleTagManager(Obs, net.gtm, fault), fault, "ga4")

\* detectGA4 handed the listener's Set as it is when the detector starts.
DetectGa4StepLiveSet ==
  /\ pc = "ga4"
  /\ \E fault \in Faults : Detected(DetectGA4(Obs, ga4Requests, fault), fault, "gads")

DetectGa4Step ==
  /\ pc = "ga4"
  /\ \E fault \in Faults : Detected(DetectGA4(Obs, net.ga4, fault), fault, "gads")

DetectGadsStep ==
  /\ pc = "gads"
  /\ \E fault \in Faults : Detected(DetectGoogleAds(Obs, net.gads, fault), fault, "meta")

DetectMetaStep ==
  /\ pc = "meta"
  /\ \E fault \in Faults : Detected(DetectMetaPixel(Obs, net.meta, fault), fault, "cms")

\* scanUrl: detectCms when includeCmsDetection is set, then generateRecommendations.
FinishScan ==
  /\ pc = "cms"
  /\ \E includeCmsDetection \in BOOLEAN :
       cmsResult' = IF includeCmsDetection THEN DetectCms(Obs) ELSE NoCms
  /\ recommendations' = generateRecommendations(tagResults)
  /\ pc' = "done"
  /\ UNCHANGED <<flowVars, userVars, pageVars, requestVars, net, tagResults, seen, nEvents, nFaults>>

Next ==
  \/ OnRequest \/ InsertElement \/ DataLayerInit \/ DataLayerPush \/ DefineGlobal
  \/ Settle \/ StartDetectTags
  \/ DetectGtmStep \/ DetectGa4Step \/ DetectGadsStep \/ DetectMetaStep
  \/ FinishScan

Spec == Init /\ [][Next]_vars

\* ------------------------------------------------ detectCms on its own
\* Elements of a page per specification SpecCms.
MaxCmsElems == 2

\* <link rel="stylesheet" href="/wp-content/themes/t/style.css">
C_wpContent == Elem({"link[href*=/wp-content/]", "link[href*=wp-]"}, {"/wp-content/"},
                    FALSE, <<>>, <<>>)
\* <script>window._wpemojiSettings = {... "wp-emoji-release.min.js" ...}</script>
C_wpEmoji == Elem({}, {"wp-emoji"}, TRUE, <<>>, <<>>)
\* <div id="wpadminbar">
C_wpAdminBar == Elem({"#wpadminbar"}, {}, FALSE, <<>>, <<>>)
\* <body class="home wordpress">
C_bodyWordpress == Elem({"body.wordpress"}, {}, FALSE, <<>>, <<>>)
\* <script src="https://cdn.shopify.com/s/files/1/theme.js">
C_shopifyCdn == Elem({"script[src*=shopify]"}, {"cdn.shopify.com"}, TRUE, <<>>, <<>>)
\* <div class="shopify-section">
C_shopifySection == Elem({}, {"shopify-section"}, FALSE, <<>>, <<>>)
\* <div class="shopify-buy">
C_shopifyBuy == Elem({".shopify-buy"}, {"shopify-buy"}, FALSE, <<>>, <<>>)
\* <img src="https://static.wixstatic.com/media/a.png">
C_wixStatic == Elem({"img[src*=wix]"}, {"static.wixstatic.com"}, FALSE, <<>>, <<>>)
\* <a href="https://user.wixsite.com/site">
C_wixSite == Elem({}, {"wixsite.com"}, FALSE, <<>>, <<>>)
\* <div class="wix-dropdown">
C_wixClass == Elem({}, {"wix-"}, FALSE, <<>>, <<>>)
\* <script>var drupalSettings = {...}</script>
C_drupal == Elem({}, {"drupalSettings"}, TRUE, <<>>, <<>>)
\* <script src="/media/system/js/core.js">
C_joomla == Elem({}, {"/media/system/"}, TRUE, <<>>, <<>>)
\* <meta name="generator" content="WordPress 6.4">
M_wordpress == MetaGenerator({"WordPress"}, "WordPress", TRUE)
\* <meta name="generator" content="Hugo 0.120">
M_hugo == MetaGenerator({}, "Hugo", TRUE)
\* <meta name="generator" content="Go 1">
M_short == MetaGenerator({}, "Go", FALSE)

CmsCatalogue ==
  {C_wpContent, C_wpEmoji, C_wpAdminBar, C_bodyWordpress, C_shopifyCdn, C_shopifySection,
   C_shopifyBuy, C_wixStatic, C_wixSite, C_wixClass, C_drupal, C_joomla, M_wordpress, M_hugo,
   M_short}

CmsGlobals == {{}, {"wp"}, {"Shopify"}, {"wixBiSession"}}

CmsPages == UNION {[1..n -> CmsCatalogue] : n \in 0..MaxCmsElems}

\* A loaded page handed to detectCms.  A document without body has no body element.
InitCms ==
  /\ pc = "cms"
  /\ page \in CmsPages
  /\ globals \in CmsGlobals
  /\ hasBody \in BOOLEAN
  /\ hasBody \/ ~Query(page, "body.wordpress")
  /\ hasDataLayer = FALSE /\ dataLayer = <<>>
  /\ gtmRequests = <<>> /\ ga4Requests = <<>> /\ googleAdsRequests = <<>>
  /\ metaPixelRequests = <<>>
  /\ net = NoNet /\ tagResults = <<>> /\ seen = <<>> /\ cmsResult = NoCms
  /\ recommendations = <<>>
  /\ nEvents = 0 /\ nFaults = 0
  /\ ScanUnderWay /\ NoUserCalls

\* this.detectCms(page)
RunDetectCms ==
  /\ pc = "cms"
  /\ cmsResult' = DetectCms(Obs)
  /\ pc' = "done"
  /\ UNCHANGED <<flowVars, userVars, pageVars, requestVars, net, tagResults, seen, recommendations, nEvents, nFaults>>

NextCms == RunDetectCms

SpecCms == InitCms /\ [][NextCms]_vars

\* ------------------------------------- detectTags on a page at rest
\* Elements of a page per specification SpecGate.
MaxGateElems == 1

\* The elements that hold an identifier.
GateCatalogue ==
  {E_gtmScript, E_gtmSnippet, E_gtmVar, E_gtmComment, E_ga4Config, E_adsConfig, E_adsSpecial}

GatePages == UNION {[1..n -> GateCatalogue] : n \in 0..MaxGateElems}

GateDataLayers == {<<>>} \cup {<<it>> : it \in ItemCatalogue}

\* A loaded page at the end of scanUrl's waits, with what the listener captured.
InitGate ==
  /\ pc = "navigate"
  /\ page \in GatePages
  /\ hasDataLayer \in BOOLEAN
  /\ dataLayer \in GateDataLayers
  /\ hasDataLayer \/ dataLayer = <<>>
  /\ globals \in {{}, GlobalCatalogue}
  /\ hasBody = TRUE
  /\ gtmRequests \in {<<>>, <<GTM_AAA>>}
  /\ ga4Requests = <<>> /\ googleAdsRequests = <<>> /\ metaPixelRequests = <<>>
  /\ net = NoNet /\ tagResults = <<>> /\ seen = <<>> /\ cmsResult = NoCms
  /\ recommendations = <<>>
  /\ nEvents = 0 /\ nFaults = 0
  /\ ScanUnderWay /\ NoUserCalls

NextGate ==
  \/ Settle \/ StartDetectTags
  \/ DetectGtmStep \/ DetectGa4Step \/ DetectGadsStep \/ DetectMetaStep

SpecGate == InitGate /\ [][NextGate]_vars

\* ------------------------------------ a page that acts during detection
\* Page events per behaviour of specification SpecLive.
MaxLiveEvents == 1

\* scanUrl removes the listener and closes the page only after
\* generateRecommendations: while detectTags and detectCms await their
\* evaluations, the page's scripts run and its requests reach the listener.
LiveOpen == pc \in {"gtm", "ga4", "gads", "meta", "cms"} /\ nEvents < MaxLiveEvents

\* page.on('request', ...) while a detector awaits
RequestWhileDetecting ==
  /\ LiveOpen
  /\ \E url \in UrlCatalogue :
       /\ metaPixelRequests' = ListenMetaPixel(metaPixelRequests, url)
       /\ gtmRequests' = ListenGtm(gtmRequests, url)
       /\ ga4Requests' = ListenGa4(ga4Requests, url)
       /\ googleAdsRequests' = ListenGoogleAds(googleAdsRequests, url)
  /\ nEvents' = nEvents + 1
  /\ UNCHANGED <<flowVars, userVars, pageVars, scanVars, nFaults>>

\* A script of the page inserts an element while a detector awaits.
InsertWhileDetecting ==
  /\ LiveOpen
  /\ \E e \in ElementCatalogue : page' = Append(page, e)
  /\ nEvents' = nEvents + 1
  /\ UNCHANGED <<flowVars, userVars, hasDataLayer, dataLayer, globals, hasBody, requestVars, scanVars, nFaults>>

\* A script of the page calls dataLayer.push while a detector awaits.
PushWhileDetecting ==
  /\ LiveOpen
  /\ \E item \in ItemCatalogue : dataLayer' = Append(dataLayer, item)
  /\ hasDataLayer' = TRUE
  /\ nEvents' = nEvents + 1
  /\ UNCHANGED <<flowVars, userVars, page, globals, hasBody, requestVars, scanVars, nFaults>>

NextLive ==
  \/ Settle \/ StartDetectTags
  \/ DetectGtmStep \/ DetectGa4Step \/ DetectGadsStep \/ DetectMetaStep
  \/ FinishScan
  \/ RequestWhileDetecting \/ InsertWhileDetecting \/ PushWhileDetecting

SpecLive == Init /\ [][NextLive]_vars

\* ------------------------------------------- scanUrl from call to return
\* The strings scanUrl is called with: scheme and the rest.
UrlInputs == [scheme : {"", "http://", "https://"}, host : {"example.com", "", "exa mple"}]
NoUrl == [scheme |-> "", host |-> ""]

normalizeUrl(u) ==
  IF u.scheme \notin {"http://", "https://"} THEN [u EXCEPT !.scheme = "https://"] ELSE u

\* new URL(urlString) throws on an empty host and on a host with a space.
isValidUrl(u) == u.scheme \in {"http://", "https://"} /\ u.host \notin {"", "exa mple"}

\* What the document holds after a page.goto.
LoadedPages == {<<>>, <<E_gtmScript>>, <<E_fbLink>>}

InitScan ==
  /\ BlankPage
  /\ flow = "called" /\ normalizedUrl = NoUrl
  /\ browser = "null" /\ scanPage = "null" /\ closes = 0 /\ navFailures = 0
  /\ NoUserCalls

\* normalizeUrl, isValidUrl and the throw of BadRequest('Invalid URL provided')
ValidateUrl ==
  /\ flow = "called"
  /\ \E u \in UrlInputs :
       /\ normalizedUrl' = normalizeUrl(u)
       /\ flow' = IF isValidUrl(normalizeUrl(u)) THEN "launch" ELSE "threwInvalid"
  /\ UNCHANGED <<pageVars, requestVars, scanVars, nEvents, nFaults, browser, scanPage, closes,
                 navFailures, userVars>>

\* scanBrowser = await this.createBrowser()
LaunchBrowser ==
  /\ flow = "launch"
  /\ \E ok \in BOOLEAN :
       /\ browser' = IF ok THEN "open" ELSE browser
       /\ flow' = IF ok THEN "newPage" ELSE "catch"
  /\ UNCHANGED <<pageVars, requestVars, scanVars, nEvents, nFaults, normalizedUrl, scanPage,
                 closes, navFailures, userVars>>

\* page = await scanBrowser.newPage()
NewPage ==
  /\ flow = "newPage"
  /\ \E ok \in BOOLEAN :
       /\ scanPage' = IF ok THEN "open" ELSE scanPage
       /\ flow' = IF ok THEN "setup" ELSE "catch"
  /\ UNCHANGED <<pageVars, requestVars, scanVars, nEvents, nFaults, normalizedUrl, browser,
                 closes, navFailures, userVars>>

\* The settings of the page, the listener and the clearing of cache and cookies.
SetUpPage ==
  /\ flow = "setup"
  /\ \E ok \in BOOLEAN : flow' = IF ok THEN "goto" ELSE "catch"
  /\ UNCHANGED <<pageVars, requestVars, scanVars, nEvents, nFaults, normalizedUrl, browser,
                 scanPage, closes, navFailures, userVars>>

\* page.goto(normalizedUrl, {waitUntil: 'networkidle2'}) and its catch
Goto ==
  /\ flow = "goto"
  /\ \E ok \in BOOLEAN :
       /\ flow' = IF ok THEN "scan" ELSE "retry"
       /\ navFailures' = IF ok THEN navFailures ELSE navFailures + 1
  /\ page' \in LoadedPages
  /\ UNCHANGED <<hasDataLayer, dataLayer, globals, hasBody, requestVars, scanVars, nEvents,
                 nFaults, normalizedUrl, browser, scanPage, closes, userVars>>

\* The retry whose failure is thrown on instead of logged.
RetryGotoThrowing ==
  /\ flow = "retry"
  /\ \E ok \in BOOLEAN :
       /\ flow' = IF ok THEN "scan" ELSE "catch"
       /\ navFailures' = IF ok THEN navFailures ELSE navFailures + 1
       /\ page' \in IF ok THEN LoadedPages ELSE {page}
  /\ UNCHANGED <<hasDataLayer, dataLayer, globals, hasBody, requestVars, scanVars, nEvents,
                 nFaults, normalizedUrl, browser, scanPage, closes, userVars>>

\* page.goto(normalizedUrl, {waitUntil: 'domcontentloaded'}) and its catch:
\* "Continuing scan with current page state".
RetryGoto ==
  /\ flow = "retry"
  /\ \E ok \in BOOLEAN :
       /\ flow' = "scan"
       /\ navFailures' = IF ok THEN navFailures ELSE navFailures + 1
       /\ page' \in IF ok THEN LoadedPages ELSE {page}
  /\ UNCHANGED <<hasDataLayer, dataLayer, globals, hasBody, requestVars, scanVars, nEvents,
                 nFaults, normalizedUrl, browser, scanPage, closes, userVars>>

\* A page.evaluate of the targeted search rejects: it has no catch of its own.
TargetedSearchThrows ==
  /\ flow = "scan" /\ pc = "navigate"
  /\ flow' = "catch"
  /\ UNCHANGED <<pageVars, requestVars, scanVars, nEvents, nFaults, normalizedUrl, browser,
                 scanPage, closes, navFailures, userVars>>

\* The waits, the targeted search, detectTags, detectCms and
\* generateRecommendations.
ScanPage ==
  /\ flow = "scan"
  /\ \/ Settle \/ StartDetectTags
     \/ DetectGtmStep \/ DetectGa4Step \/ DetectGadsStep \/ DetectMetaStep
     \/ FinishScan

\* page.removeAllListeners('request'); page.close(); page = null
ClosePage ==
  /\ flow = "scan" /\ pc = "done"
  /\ \E ok \in BOOLEAN :
       /\ scanPage' = IF ok THEN "null" ELSE scanPage
       /\ flow' = IF ok THEN "closeBrowser" ELSE "catch"
  /\ UNCHANGED <<pageVars, requestVars, scanVars, nEvents, nFaults, normalizedUrl, browser,
                 closes, navFailures, userVars>>

\* scanBrowser.close() outside a try block: its failure reaches the outer catch.
CloseBrowserUncaught ==
  /\ flow = "closeBrowser"
  /\ closes' = closes + 1
  /\ \E ok \in BOOLEAN :
       /\ browser' = IF ok THEN "closed" ELSE browser
       /\ flow' = IF ok THEN "returned" ELSE "catch"
  /\ UNCHANGED <<pageVars, requestVars, scanVars, nEvents, nFaults, normalizedUrl, scanPage,
                 navFailures, userVars>>

\* try { await scanBrowser.close() } catch (closeError) {...}; return {...}
CloseBrowser ==
  /\ flow = "closeBrowser"
  /\ closes' = closes + 1
  /\ \E ok \in BOOLEAN : browser' = IF ok THEN "closed" ELSE browser
  /\ flow' = "returned"
  /\ UNCHANGED <<pageVars, requestVars, scanVars, nEvents, nFaults, normalizedUrl, scanPage,
                 navFailures, userVars>>

\* The outer catch: the page and the browser are closed if they exist, each
\* in its own try block, and BadRequest('Failed to scan URL: ...') is thrown.
CatchError ==
  /\ flow = "catch"
  /\ closes' = IF browser # "null" THEN closes + 1 ELSE closes
  /\ \E ok \in BOOLEAN : browser' = IF browser # "null" /\ ok THEN "closed" ELSE browser
  /\ flow' = "threwFailed"
  /\ UNCHANGED <<pageVars, requestVars, scanVars, nEvents, nFaults, normalizedUrl, scanPage,
                 navFailures, userVars>>

NextScan ==
  \/ ValidateUrl \/ LaunchBrowser \/ NewPage \/ SetUpPage \/ Goto \/ RetryGoto
  \/ TargetedSearchThrows \/ ScanPage \/ ClosePage \/ CloseBrowser \/ CatchError

SpecScan == InitScan /\ [][NextScan]_vars

\* ------------------------------------- createUser and the Google sign-in
Emails == {"a@example.com", "b@example.com"}
\* profile.emails?.[0].value || ''
ProfileEmails == Emails \cup {""}
GoogleIds == {"g-1"}

User(email, googleId, hasPassword) ==
  [email |-> email, googleId |-> googleId, hasPassword |-> hasPassword]

\* db.select().from(Users).where(eq(Users.email, email)): the row numbers
RowsWithEmail(email) == {i \in 1..Len(users) : users[i].email = email}
\* db.select().from(Users).where(eq(Users.googleId, id))
RowsWithGoogleId(id) == {i \in 1..Len(users) : users[i].googleId = id}

\* The schema of the Users table is not among the sources: both a table with
\* a unique index on email and one without are taken.
InitUsers ==
  /\ BlankPage /\ ScanUnderWay
  /\ emailUnique \in BOOLEAN
  /\ users = <<>>
  /\ userCalls = [p \in Procs |-> NoCall]

Step(p, at, outcome) == userCalls' = [userCalls EXCEPT ![p].at = at, ![p].outcome = outcome]

\* A request reaches createUser.
CallCreateUser(p) ==
  /\ userCalls[p].kind = "none"
  /\ \E email \in Emails :
       userCalls' = [userCalls EXCEPT ![p] = [NoCall EXCEPT !.kind = "createUser",
                                                           !.at = "select", !.email = email]]
  /\ UNCHANGED <<vars_scan, emailUnique, users>>

\* createUser: the select by email and the throw of 'Email already exists'
CreateUserSelect(p) ==
  /\ userCalls[p].kind = "createUser" /\ userCalls[p].at = "select"
  /\ IF RowsWithEmail(userCalls[p].email) # {}
     THEN Step(p, "done", "Email already exists")
     ELSE Step(p, "insert", "")
  /\ UNCHANGED <<vars_scan, emailUnique, users>>

\* createUser: bcrypt.hash, then the insert and the return of the new row
CreateUserInsert(p) ==
  /\ userCalls[p].kind = "createUser" /\ userCalls[p].at = "insert"
  /\ IF emailUnique /\ RowsWithEmail(userCalls[p].email) # {}
     THEN /\ Step(p, "done", "duplicate key value violates unique constraint")
          /\ users' = users
     ELSE /\ Step(p, "done", "created")
          /\ users' = Append(users, User(userCalls[p].email, "", TRUE))
  /\ UNCHANGED <<vars_scan, emailUnique>>

\* Google calls the verify callback of the strategy with a profile.
CallGoogleSignIn(p) ==
  /\ userCalls[p].kind = "none"
  /\ \E email \in ProfileEmails, id \in GoogleIds :
       userCalls' = [userCalls EXCEPT ![p] = [NoCall EXCEPT !.kind = "google",
                                                           !.at = "selectGoogleId",
                                                           !.email = email, !.googleId = id]]
  /\ UNCHANGED <<vars_scan, emailUnique, users>>

\* The callback: the select by Google id
GoogleSelectById(p) ==
  /\ userCalls[p].kind = "google" /\ userCalls[p].at = "selectGoogleId"
  /\ IF RowsWithGoogleId(userCalls[p].googleId) # {}
     THEN Step(p, "done", "existing")
     ELSE Step(p, "selectEmail", "")
  /\ UNCHANGED <<vars_scan, emailUnique, users>>

\* The callback: the select by email
GoogleSelectByEmail(p) ==
  /\ userCalls[p].kind = "google" /\ userCalls[p].at = "selectEmail"
  /\ IF RowsWithEmail(userCalls[p].email) # {}
     THEN Step(p, "update", "")
     ELSE Step(p, "insert", "")
  /\ UNCHANGED <<vars_scan, emailUnique, users>>

\* The callback: the update of the row found by email (the first one)
GoogleUpdate(p) ==
  /\ userCalls[p].kind = "google" /\ userCalls[p].at = "update"
  /\ LET i == First(RowsWithEmail(userCalls[p].email))
     IN  users' = [users EXCEPT ![i].googleId = userCalls[p].googleId]
  /\ Step(p, "done", "linked")
  /\ UNCHANGED <<vars_scan, emailUnique>>

\* The callback: the insert of a new user, an error of the database going to done(error)
GoogleInsert(p) ==
  /\ userCalls[p].kind = "google" /\ userCalls[p].at = "insert"
  /\ IF emailUnique /\ RowsWithEmail(userCalls[p].email) # {}
     THEN /\ Step(p, "done", "duplicate key value violates unique constraint")
          /\ users' = users
     ELSE /\ Step(p, "done", "created")
          /\ users' = Append(users, User(userCalls[p].email, userCalls[p].googleId, FALSE))
  /\ UNCHANGED <<vars_scan, emailUnique>>

NextUsers ==
  \E p \in Procs :
    \/ CallCreateUser(p) \/ CreateUserSelect(p) \/ CreateUserInsert(p)
    \/ CallGoogleSignIn(p) \/ GoogleSelectById(p) \/ GoogleSelectByEmail(p)
    \/ GoogleUpdate(p) \/ GoogleInsert(p)

SpecUsers == InitUsers /\ [][NextUsers]_vars

\* ================================================================ claims
\* The technologies in the order of detectTags' results.
Techs == 1..4
\* Technology t's detector has returned.
Ran(t) == t <= Len(tagResults)
\* What the listener had captured for technology t when detectTags copied it.
Captured(t) == <<net.gtm, net.ga4, net.gads, net.meta>>[t]
\* Technology t's evaluation ended in its catch block.
Threw(t) ==
  \/ seen[t].fault
  \/ (t = 1 /\ GtmEvalThrows(seen[t].obs))
  \/ (t = 4 /\ MetaEvalThrows(seen[t].obs))

\* The dataLayer entries of an observation that are objects.
Entries(obs) ==
  IF obs.hasDataLayer THEN SelectSeq(obs.dataLayer, LAMBDA it : it.kind # "null") ELSE <<>>

\* Presence evidence of technology t in an observation: a script or iframe tag,
\* an inline initialisation, a tracking image, a global function or variable,
\* an active dataLayer.
PresenceEvidence(t, obs) ==
  CASE t = 1 -> \/ Query(obs.page, "script[src*=googletagmanager.com/gtm.js]")
                \/ Query(obs.page, "iframe[src*=googletagmanager.com/ns.html]")
                \/ HtmlIncludes(obs.page, "googletagmanager.com/gtm.js?id=GTM-")
                \/ HtmlIncludes(obs.page, "(window,document,'script','dataLayer','GTM-")
                \/ (obs.hasDataLayer /\ obs.dataLayer # <<>>)
    [] t = 2 -> \/ Query(obs.page, "script[src*=google-analytics.com/analytics.js]")
                \/ Query(obs.page, "script[src*=googletagmanager.com/gtag/js]")
                \/ Query(obs.page, "script[src*=google-analytics.com/g/collect]")
                \/ HtmlIncludes(obs.page, "gtag('config', 'G-")
                \/ HtmlIncludes(obs.page, "destination?id=G-")
                \/ "gtag" \in obs.globals
    [] t = 3 -> \/ Query(obs.page, "script[src*=googleadservices.com/pagead/conversion]")
                \/ "gtag" \in obs.globals
                \/ "google_conversion_id" \in obs.globals
    [] t = 4 -> \/ Query(obs.page, "script[src*=connect.facebook.net]")
                \/ Query(obs.page, "script[src*=facebook.net/en_US/fbevents.js]")
                \/ Query(obs.page, "script[src*=fbevents.js]")
                \/ Query(obs.page, "noscript[src*=facebook.com/tr]")
                \/ Query(obs.page, "noscript img[src*=facebook.com/tr]")
                \/ HtmlIncludes(obs.page, "facebook.com/tr?id=")
                \/ HtmlIncludes(obs.page, "fbq('init',")
                \/ (Query(obs.page, "script[src*=sdk.js]") /\ HtmlIncludes(obs.page, "FB.init"))
                \/ "fbq" \in obs.globals
                \/ \E i \in 1..Len(Entries(obs)) : MetaItem(Entries(obs)[i])

\* The auxiliary confirmation signal of technology t: the Tag Manager
\* activation event, the Analytics config call, the Ads conversion event, the
\* Pixel's init call or callable function.
Confirmation(t, obs) ==
  CASE t = 1 -> \E i \in 1..Len(Entries(obs)) : Entries(obs)[i].event = "gtm.js"
    [] t = 2 -> \/ HtmlIncludes(obs.page, "gtag('config', 'G-")
                \/ \E i \in 1..Len(Entries(obs)) :
                     /\ Len(Entries(obs)[i].args) >= 2
                     /\ Entries(obs)[i].args[1] = <<"config">>
                     /\ StartsWith(Entries(obs)[i].args[2], <<"G-">>)
    [] t = 3 -> \E i \in 1..Len(Entries(obs)) : IsConversionEvent(Entries(obs)[i].event)
    [] t = 4 -> HtmlIncludes(obs.page, "fbq('init',") \/ "fbq" \in obs.globals

\* The markup names an identifier of technology t.
MarkupHasId(t, pg) ==
  CASE t = 1 -> HtmlIncludesId(pg, <<"GTM-">>)
    [] t = 2 -> HtmlIncludesId(pg, <<"G-">>)
    [] t = 3 -> HtmlIncludesId(pg, <<"AW-">>) \/ HtmlIncludesId(pg, <<"google_conversion_id=">>)
    [] t = 4 -> HtmlIncludes(pg, "facebook.com/tr?id=")

\* A script element with a body: it has no src, so no script[src*=...] selector matches it.
InlineScript(e) == e.script /\ e.sel = {}

\* The markup refers to Tag Manager: a gtm.js script tag or the text "GTM-".
GtmReference(pg) ==
  Query(pg, "script[src*=googletagmanager.com/gtm.js]") \/ HtmlIncludesId(pg, <<"GTM-">>)

\* The observation of the claim C5: nothing captured, no dataLayer entry, no
\* inline script, no identifier of technology t in the markup, no fault.
EmptyEvidence(t) ==
  /\ Ran(t) /\ ~seen[t].fault
  /\ net = NoNet
  /\ seen[t].obs.dataLayer = <<>>
  /\ \A i \in 1..Len(seen[t].obs.page) : ~InlineScript(seen[t].obs.page[i])
  /\ ~MarkupHasId(t, seen[t].obs.page)

\* The result of the claim C5.
AbsentResult(t) ==
  /\ ~tagResults[t].isPresent
  /\ tagResults[t].status = NOT_FOUND
  /\ tagResults[t].ids = <<>>

\* C1 (as the spec states it): whenever the listener captured at least one
\* identifier for a technology, and the browser did not reject the detector's
\* evaluation, that technology's status is Connected, whatever the page holds.
C1_NetworkOverride ==
  \A t \in Techs :
    (Ran(t) /\ Captured(t) # <<>> /\ ~seen[t].fault) => tagResults[t].status = CONNECTED

\* C2 (as the spec states it): in every result of the four detectors,
\* status Not Found implies isPresent = false.
C2_NotFoundIsAbsent ==
  \A t \in Techs :
    (Ran(t) /\ tagResults[t].status = NOT_FOUND) => ~tagResults[t].isPresent

\* C3 (as the spec states it, for Google Ads): presence evidence (the
\* conversion script tag, a gtag function, a google_conversion global), no
\* identifier discovered and nothing captured from the network give status
\* Incomplete Setup.
C3_PresenceWithoutId ==
  LET t == 3
  IN  (/\ Ran(t) /\ ~Threw(t)
       /\ PresenceEvidence(t, seen[t].obs)
       /\ tagResults[t].ids = <<>>
       /\ Captured(t) = <<>>)
      => tagResults[t].status = INCOMPLETE

\* The case of the claim C4: an identifier discovered, no auxiliary
\* confirmation signal, nothing captured from the network.
IdWithoutConfirmation(t) ==
  /\ Ran(t) /\ ~Threw(t)
  /\ tagResults[t].ids # <<>>
  /\ ~Confirmation(t, seen[t].obs)
  /\ Captured(t) = <<>>

\* C4 (as the spec states it): an identifier without auxiliary confirmation and
\* without network capture gives status Misconfigured, for each technology.
C4_IdWithoutConfirmationIsMisconfigured ==
  \A t \in Techs : IdWithoutConfirmation(t) => tagResults[t].status = MISCONFIGURED

\* C4 (amended): with an identifier, no auxiliary confirmation and no network
\* capture, Tag Manager is Misconfigured only when the page defines no
\* dataLayer array and Connected otherwise; GA4 is Connected; Google Ads is
\* Incomplete Setup unless a gtag function or a google_conversion global is
\* defined, and Connected then; Meta Pixel takes its identifiers from the
\* network only, so the case does not arise for it.
C4_IdWithoutConfirmationLadder ==
  \A t \in Techs :
    IdWithoutConfirmation(t) =>
      CASE t = 1 -> tagResults[t].status =
                      IF seen[t].obs.hasDataLayer THEN CONNECTED ELSE MISCONFIGURED
        [] t = 2 -> tagResults[t].status = CONNECTED
        [] t = 3 -> tagResults[t].status =
                      IF seen[t].obs.globals \cap {"gtag", "google_conversion_id"} # {}
                      THEN CONNECTED ELSE INCOMPLETE
        [] t = 4 -> FALSE

\* C4 (witness): a scan in which Tag Manager's identifier sits in a page
\* without dataLayer and Google Ads' identifier comes without conversion event.
C4_Witness ==
  /\ IdWithoutConfirmation(1) /\ tagResults[1].status = MISCONFIGURED
  /\ IdWithoutConfirmation(3) /\ tagResults[3].status = INCOMPLETE

\* C5 (as the spec states it): with nothing captured, an empty dataLayer, no
\* inline script and no identifier of the technology in the markup, the result
\* is isPresent = false, Not Found, no identifiers.
C5_EmptyEvidenceIsAbsent ==
  \A t \in Techs : EmptyEvidence(t) => AbsentResult(t)

\* C5 (amended): the same, for an observation that in addition shows no
\* presence signal of the technology and, for GA4 and Meta Pixel, no reference
\* to Tag Manager in the markup.
C5_NoEvidenceIsAbsent ==
  \A t \in Techs :
    (/\ EmptyEvidence(t)
     /\ ~PresenceEvidence(t, seen[t].obs)
     /\ (t \in {2, 4} => ~GtmReference(seen[t].obs.page)))
    => AbsentResult(t)

\* C5 (witness): a scan of a page that is not empty and shows none of the four
\* technologies.
C5_Witness ==
  /\ pc = "done" /\ page # <<>>
  /\ \A t \in Techs : EmptyEvidence(t) /\ ~PresenceEvidence(t, seen[t].obs)
                      /\ ~GtmReference(seen[t].obs.page) /\ AbsentResult(t)

\* C6: in every result of the four detectors id is ids[0] when ids is not
\* empty and absent when it is, the Tag Manager result with its appended MC-
\* identifiers included.
C6_IdIsFirstOfIds ==
  \A t \in Techs :
    Ran(t) => tagResults[t].id = (IF tagResults[t].ids # <<>> THEN tagResults[t].ids[1] ELSE NoId)

\* C6 (witness): a Tag Manager result to which an MC- identifier was appended.
C6_Witness ==
  /\ Ran(1) /\ Len(tagResults[1].ids) >= 2
  /\ MC_AAA \in Range(tagResults[1].ids)
  /\ tagResults[1].id = tagResults[1].ids[1]

\* Technology t's result in a run without rejection, on what t's evaluation saw.
Unfaulted(t) ==
  CASE t = 1 -> DetectGoogleTagManager(seen[t].obs, net.gtm, FALSE)
    [] t = 2 -> DetectGA4(seen[t].obs, net.ga4, FALSE)
    [] t = 3 -> DetectGoogleAds(seen[t].obs, net.gads, FALSE)
    [] t = 4 -> DetectMetaPixel(seen[t].obs, net.meta, FALSE)

\* C7: a technology whose evaluation throws gets status Error and isPresent =
\* false; every other technology gets the result of a run without fault;
\* detectTags returns all four results, in its fixed order.
C7_FaultIsolation ==
  /\ \A t \in Techs :
       Ran(t) => /\ tagResults[t].name = TagNames[t]
                 /\ Threw(t) => (tagResults[t].status = ERROR /\ ~tagResults[t].isPresent)
                 /\ ~seen[t].fault => tagResults[t] = Unfaulted(t)
  /\ pc \in {"cms", "done"} => Len(tagResults) = 4

\* C7 (witness): a finished scan in which one evaluation was rejected and
\* another technology is Connected.
C7_Witness ==
  /\ pc = "done"
  /\ \E t \in Techs : seen[t].fault /\ tagResults[t].status = ERROR
  /\ \E t \in Techs : ~seen[t].fault /\ tagResults[t].status = CONNECTED

\* The subject of technology t's recommendation.
Subject(t) ==
  <<"Google Tag Manager", "Google Analytics 4", "Google Ads conversion tracking",
    "Meta Pixel">>[t]

\* C8: one recommendation for each technology whose isPresent is false, none
\* for one whose isPresent is true, so recommendations and present
\* technologies add up to 4.
C8_OneRecommendationPerAbsent ==
  pc = "done" =>
    /\ \A t \in Techs :
         Cardinality({i \in 1..Len(recommendations) : recommendations[i][2] = Subject(t)})
           = (IF tagResults[t].isPresent THEN 0 ELSE 1)
    /\ Len(recommendations) + Cardinality({t \in Techs : tagResults[t].isPresent}) = 4

\* C8 (witness): a finished scan with a technology present but not Connected
\* (no recommendation for it) and a technology absent.
C8_Witness ==
  /\ pc = "done"
  /\ \E t \in Techs : /\ tagResults[t].isPresent
                      /\ tagResults[t].status \in {MISCONFIGURED, INCOMPLETE, NOT_FOUND}
                      /\ \A i \in 1..Len(recommendations) : recommendations[i][2] # Subject(t)
  /\ \E t \in Techs : ~tagResults[t].isPresent

\* The place of a recommendation's subject in the order Tag Manager, GA4,
\* Meta Pixel, Google Ads.
Place(subject) ==
  CASE subject = "Google Tag Manager" -> 1
    [] subject = "Google Analytics 4" -> 2
    [] subject = "Meta Pixel" -> 3
    [] subject = "Google Ads conversion tracking" -> 4

\* C9: the recommendations come in the order Tag Manager, GA4, Meta Pixel,
\* Google Ads; those for GA4, Meta Pixel and Google Ads begin with "Add" when
\* Tag Manager is present and with "Implement" otherwise; four absent
\* technologies give four recommendations that all begin with "Implement".
C9_OrderAndFirstWord ==
  pc = "done" =>
    /\ \A i, j \in 1..Len(recommendations) :
         i < j => Place(recommendations[i][2]) < Place(recommendations[j][2])
    /\ \A i \in 1..Len(recommendations) :
         recommendations[i][1] =
           IF Place(recommendations[i][2]) > 1 /\ tagResults[1].isPresent
           THEN "Add" ELSE "Implement"
    /\ (\A t \in Techs : ~tagResults[t].isPresent) =>
         /\ Len(recommendations) = 4
         /\ \A i \in 1..4 : recommendations[i][1] = "Implement"

\* C9 (witness): a finished scan with Tag Manager present and Meta Pixel and
\* Google Ads both absent, recommended in that order with "Add".
C9_Witness ==
  /\ pc = "done" /\ tagResults[1].isPresent
  /\ Len(recommendations) >= 2
  /\ recommendations[Len(recommendations) - 1] = <<"Add", "Meta Pixel">>
  /\ recommendations[Len(recommendations)] = <<"Add", "Google Ads conversion tracking">>

\* The summed weights of the signatures a page matches, per platform, with the
\* weights high = 3, medium = 2, low = 1 written out.
WordpressWeights(obs) ==
  (IF WordpressHigh(obs) THEN 3 ELSE 0) + (IF WordpressMedium(obs) THEN 2 ELSE 0)
  + (IF WordpressGlobals(obs) \/ WordpressBody(obs) THEN 3 ELSE 0)
ShopifyWeights(obs) ==
  (IF ShopifyHigh(obs) THEN 3 ELSE 0) + (IF ShopifyMedium(obs) THEN 2 ELSE 0)
  + (IF ShopifyLow(obs) THEN 1 ELSE 0)
WixWeights(obs) ==
  (IF WixHigh(obs) THEN 3 ELSE 0) + (IF WixMedium(obs) THEN 2 ELSE 0)
  + (IF WixLow(obs) THEN 1 ELSE 0)

DrupalOrJoomla(obs) ==
  \/ \E n \in {"drupal.", "/sites/default/files/", "/sites/all/", "drupalSettings",
               "/media/jui/", "/media/system/", "joomla", "Joomla!"} : HtmlIncludes(obs.page, n)
  \/ Query(obs.page, "body.path-frontpage")

\* The platform with the highest summed weights, the earlier one on a tie.
Highest(obs) ==
  LET wp == WordpressWeights(obs)
      sh == ShopifyWeights(obs)
      wx == WixWeights(obs)
  IN  IF wp >= sh /\ wp >= wx THEN <<"WordPress", wp>>
      ELSE IF sh >= wx THEN <<"Shopify", sh>>
      ELSE <<"Wix", wx>>

KnownPlatforms == <<"WordPress", "Shopify", "Wix", "Squarespace", "Webflow", "Drupal", "Joomla">>

\* The generator meta tags of a page, in document order.
Generators(pg) == SelectSeq(pg, LAMBDA e : e.generator.first # "")

\* Some generator meta tag names a known platform.
GeneratorNamesKnown(pg) ==
  \E i \in 1..Len(Generators(pg)) : Generators(pg)[i].generator.names # {}

\* The first generator meta tag from which detectCms returns, 0 if none.
FirstGenerator(pg) ==
  First({i \in 1..Len(Generators(pg)) :
           Generators(pg)[i].generator.names # {} \/ Generators(pg)[i].generator.firstLong})

GtmJsWithoutId ==
  /\ Ran(1)
  /\ \E i \in 1..Len(Entries(seen[1].obs)) : Entries(seen[1].obs)[i].event = "gtm.js"
  /\ Captured(1) = <<>>
  /\ ~MarkupHasId(1, seen[1].obs.page)

\* C13 (as the spec states it): a 'gtm.js' entry in the dataLayer and no Tag
\* Manager identifier anywhere give isPresent = true and Incomplete Setup.
C13_GtmJsWithoutIdIsIncomplete ==
  GtmJsWithoutId => tagResults[1].isPresent /\ tagResults[1].status = INCOMPLETE

\* C13 (amended): a 'gtm.js' entry in the dataLayer and no Tag Manager
\* identifier anywhere give isPresent = true, status Connected and no id,
\* unless the evaluation faults, which gives Error and isPresent = false.
C13_GtmJsWithoutIdIsConnected ==
  GtmJsWithoutId =>
    IF Threw(1)
    THEN tagResults[1].status = ERROR /\ ~tagResults[1].isPresent
    ELSE /\ tagResults[1].isPresent
         /\ tagResults[1].status = CONNECTED
         /\ tagResults[1].id = NoId /\ tagResults[1].ids = <<>>

\* C13 (witness): a scan whose only Tag Manager evidence is the 'gtm.js' entry.
C13_Witness ==
  /\ GtmJsWithoutId /\ ~Threw(1)
  /\ ~Query(seen[1].obs.page, "script[src*=googletagmanager.com/gtm.js]")
  /\ tagResults[1].status = CONNECTED /\ tagResults[1].ids = <<>>

\* The G- identifiers the page of GA4's evaluation holds, dataLayer included.
Ga4PageIds ==
  AddAll(Flatten([i \in 1..Len(Entries(seen[2].obs)) |-> Ga4ItemIds(Entries(seen[2].obs)[i])]),
         Matches(HtmlIds(seen[2].obs.page), <<"G-">>))

\* C14: when the listener captured a GA4 identifier and the browser did not
\* reject the evaluation, detectGA4 returns Connected with isPresent = true, and
\* its id is the first captured identifier, whatever G- identifiers the
\* dataLayer, the scripts and the markup hold.
C14_Ga4NetworkIdIsPrimary ==
  (Ran(2) /\ Captured(2) # <<>> /\ ~seen[2].fault)
  => /\ tagResults[2].status = CONNECTED
     /\ tagResults[2].isPresent
     /\ tagResults[2].id = Captured(2)[1]
     /\ Len(tagResults[2].ids) >= Len(Captured(2))
     /\ SubSeq(tagResults[2].ids, 1, Len(Captured(2))) = Captured(2)

\* C14 (witness): a captured identifier and a different one in the page, which
\* comes second in ids.
C14_Witness ==
  /\ Ran(2) /\ Captured(2) # <<>> /\ ~seen[2].fault
  /\ \E i \in 1..Len(Ga4PageIds) : Ga4PageIds[i] \notin Range(Captured(2))
  /\ tagResults[2].id = Captured(2)[1]
  /\ Len(tagResults[2].ids) > Len(Captured(2))

\* The numeric ids of the fbq('init', ...) calls in the inline scripts of the
\* page Meta Pixel's evaluation saw, in document order.
FbqInitIds ==
  LET scripts == SelectSeq(seen[4].obs.page, LAMBDA e : InlineScript(e))
      calls == Flatten([i \in 1..Len(scripts) |-> Matches(scripts[i].textIds, <<"fbq('init','">>)])
  IN  [i \in 1..Len(calls) |-> <<calls[i][2]>>]

\* C15 (as the spec states it): an inline script with an fbq('init', 'N') call,
\* no dataLayer entry naming the pixel and nothing captured from the network
\* give status Misconfigured with id N.
C15_InlineInitIsMisconfigured ==
  (/\ Ran(4) /\ ~Threw(4)
   /\ FbqInitIds # <<>>
   /\ ~\E i \in 1..Len(Entries(seen[4].obs)) : MetaItem(Entries(seen[4].obs)[i])
   /\ Captured(4) = <<>>)
  => tagResults[4].status = MISCONFIGURED /\ tagResults[4].id = FbqInitIds[1]

\* A dataLayer entry has a string field whose lowercase value contains
\* 'conversion', the event or any other property.
ConversionField(item) ==
  \/ IsConversionEvent(item.event)
  \/ \E i \in 1..Len(item.props) : \E j \in 1..Len(item.props[i][2]) :
       IsConversionEvent(item.props[i][2][j])

\* A dataLayer entry has a send_to field whose value matches the AW- pattern.
SendToField(item) ==
  \E i \in 1..Len(item.props) :
    item.props[i][1] = "send_to" /\ StartsWith(item.props[i][2], <<"AW-">>)

\* Google Ads ran with an identifier discovered and no confirmation other than
\* the dataLayer's: nothing captured, no gtag function, no google_conversion
\* global.  The status then shows the conversion-event signal.
GadsIdAndDataLayerOnly ==
  /\ Ran(3) /\ ~seen[3].fault
  /\ tagResults[3].ids # <<>>
  /\ Captured(3) = <<>>
  /\ seen[3].obs.globals \cap {"gtag", "google_conversion_id"} = {}

\* C16 (as the spec states it): the conversion-event signal is true exactly
\* when some dataLayer entry has a string field containing 'conversion' or a
\* send_to field matching the AW- pattern, so that an identifier with such an
\* entry is Connected.
C16_ConversionFieldOrSendTo ==
  GadsIdAndDataLayerOnly =>
    (tagResults[3].status = CONNECTED
       <=> \E i \in 1..Len(Entries(seen[3].obs)) :
             ConversionField(Entries(seen[3].obs)[i]) \/ SendToField(Entries(seen[3].obs)[i]))

\* C16 (amended): the conversion-event signal is true exactly when some
\* dataLayer entry's event is a string containing 'conversion'; an identifier
\* with such an entry is Connected, and without one, a send_to field or a
\* 'conversion' in another field notwithstanding, Incomplete Setup.
C16_ConversionEventOnly ==
  GadsIdAndDataLayerOnly =>
    tagResults[3].status =
      (IF \E i \in 1..Len(Entries(seen[3].obs)) : IsConversionEvent(Entries(seen[3].obs)[i].event)
       THEN CONNECTED ELSE INCOMPLETE)

\* C16 (witness): the identifier of a {send_to: 'AW-111/label'} entry, found
\* nowhere else, in a dataLayer without conversion event.
C16_Witness ==
  /\ GadsIdAndDataLayerOnly
  /\ ~MarkupHasId(3, seen[3].obs.page)
  /\ \E i \in 1..Len(Entries(seen[3].obs)) : SendToField(Entries(seen[3].obs)[i])
  /\ tagResults[3].id = AW_111
  /\ tagResults[3].status = INCOMPLETE

\* The identifiers of technology t by source, for what t's evaluation saw:
\* handed over by the listener, held by dataLayer entries, matched in the text
\* of script elements, matched in the serialised document.
IdsFromNetwork(t) ==
  IF t = 4 THEN SelectSeq(Captured(4), LAMBDA id : id # META_PIXEL_DETECTED_VIA_NETWORK)
  ELSE Captured(t)

IdsFromDataLayer(t) ==
  LET dl == IF seen[t].obs.hasDataLayer THEN seen[t].obs.dataLayer ELSE <<>>
  IN  CASE t = 2 -> Flatten([i \in 1..Len(dl) |-> Ga4ItemIds(dl[i])])
        [] t = 3 -> Flatten([i \in 1..Len(dl) |->
                               IF dl[i].kind = "null" THEN <<>>
                               ELSE Matches(ItemTokens(dl[i]), <<"AW-">>)])
        [] OTHER -> <<>>

IdsFromScripts(t) ==
  LET scripts == SelectSeq(seen[t].obs.page, LAMBDA e : e.script)
      pre == <<<<"GTM-">>, <<"G-">>, <<"AW-">>, <<"fbq">> >>[t]
  IN  IF t = 4 THEN <<>>
      ELSE Flatten([i \in 1..Len(scripts) |-> Matches(scripts[i].textIds, pre)])

IdsFromMarkup(t) ==
  LET pre == <<<<"GTM-">>, <<"G-">>, <<"AW-">>, <<"fbq">> >>[t]
  IN  IF t = 4 THEN <<>> ELSE Matches(HtmlIds(seen[t].obs.page), pre)

\* The place of an identifier in the order the spec gives: network, dataLayer,
\* inline script, markup; 5 for an identifier of no source.
SpecRank(t, id) ==
  IF id \in Range(IdsFromNetwork(t)) THEN 1
  ELSE IF id \in Range(IdsFromDataLayer(t)) THEN 2
  ELSE IF id \in Range(IdsFromScripts(t)) THEN 3
  ELSE IF id \in Range(IdsFromMarkup(t)) THEN 4
  ELSE 5

\* Its place in the order of each detector: Tag Manager takes network GTM-
\* identifiers, scripts, markup, and last the network MC- identifiers; GA4
\* network, dataLayer, scripts, markup; Google Ads network, scripts, markup,
\* dataLayer; Meta Pixel the network only.
CodeRank(t, id) ==
  CASE t = 1 -> IF id \in Range(IdsFromNetwork(1)) /\ StartsWith(id, <<"GTM-">>) THEN 1
                ELSE IF id \in Range(IdsFromScripts(1)) THEN 2
                ELSE IF id \in Range(IdsFromMarkup(1)) THEN 3
                ELSE IF id \in Range(IdsFromNetwork(1)) /\ StartsWith(id, <<"MC-">>) THEN 4
                ELSE 5
    [] t = 2 -> SpecRank(2, id)
    [] t = 3 -> IF id \in Range(IdsFromNetwork(3)) THEN 1
                ELSE IF id \in Range(IdsFromScripts(3)) THEN 2
                ELSE IF id \in Range(IdsFromMarkup(3)) THEN 3
                ELSE IF id \in Range(IdsFromDataLayer(3)) THEN 4
                ELSE 5
    [] t = 4 -> IF id \in Range(IdsFromNetwork(4)) THEN 1 ELSE 5

\* C17 (as the spec states it): in every ids list network identifiers precede
\* dataLayer-only ones, which precede script-only ones, which precede
\* markup-only ones.
C17_NetworkQueueScriptMarkup ==
  \A t \in Techs :
    Ran(t) =>
      \A i, j \in 1..Len(tagResults[t].ids) :
        i < j => SpecRank(t, tagResults[t].ids[i]) <= SpecRank(t, tagResults[t].ids[j])

\* C17 (amended): every identifier of an ids list comes from one of the
\* detector's sources and the list follows the detector's own order of
\* sources: Tag Manager network GTM-, scripts, markup, network MC-; GA4
\* network, dataLayer, scripts, markup; Google Ads network, scripts, markup,
\* dataLayer; Meta Pixel network.
C17_DetectorSourceOrder ==
  \A t \in Techs :
    Ran(t) =>
      /\ \A i \in 1..Len(tagResults[t].ids) : CodeRank(t, tagResults[t].ids[i]) <= 4
      /\ \A i, j \in 1..Len(tagResults[t].ids) :
           i < j => CodeRank(t, tagResults[t].ids[i]) <= CodeRank(t, tagResults[t].ids[j])

\* C17 (witness): a Google Ads list in which an identifier found in a script
\* stands before one found in the dataLayer only.
C17_Witness ==
  /\ Ran(3)
  /\ \E i, j \in 1..Len(tagResults[3].ids) :
       /\ i < j
       /\ CodeRank(3, tagResults[3].ids[i]) = 2
       /\ CodeRank(3, tagResults[3].ids[j]) = 4

\* C18: no ids list of a TagResult holds an identifier twice, whichever
\* sources mention it, and de-duplicating a returned list again ([...new
\* Set(ids)]) leaves it as it is, order and content.
C18_IdsWithoutDuplicate ==
  \A t \in Techs :
    Ran(t) =>
      /\ \A i, j \in 1..Len(tagResults[t].ids) :
           tagResults[t].ids[i] = tagResults[t].ids[j] => i = j
      /\ AddAll(<<>>, tagResults[t].ids) = tagResults[t].ids

\* C18 (witness): an identifier that a captured request and the markup of a
\* script tag both mention, once in Tag Manager's list.
C18_Witness ==
  /\ Ran(1)
  /\ \E id \in Range(IdsFromNetwork(1)) \cap Range(IdsFromMarkup(1)) :
       Cardinality({i \in 1..Len(tagResults[1].ids) : tagResults[1].ids[i] = id}) = 1

\* The dataLayers an observation is compared with: empty, or one entry that no
\* evaluation throws on.
AltDataLayers == {<<>>} \cup {<<it>> : it \in ItemCatalogue \ {I_null, I_circular}}

\* The observations that differ from obs only in confirmation signals: the
\* dataLayer and the callable globals.
AltObservations(obs) ==
  {[obs EXCEPT !.hasDataLayer = FALSE, !.dataLayer = <<>>, !.globals = g] :
     g \in {{}, GlobalCatalogue}}
  \cup {[obs EXCEPT !.hasDataLayer = TRUE, !.dataLayer = dl, !.globals = g] :
          dl \in AltDataLayers, g \in {{}, GlobalCatalogue}}

\* Technology t's result on an observation, with what the listener handed over.
ResultOn(t, obs) ==
  CASE t = 1 -> DetectGoogleTagManager(obs, net.gtm, FALSE)
    [] t = 2 -> DetectGA4(obs, net.ga4, FALSE)
    [] t = 3 -> DetectGoogleAds(obs, net.gads, FALSE)
    [] t = 4 -> DetectMetaPixel(obs, net.meta, FALSE)

\* The identifiers of a list that the script text or the markup of the page
\* of t's evaluation holds.
PageIdsIn(t, ids) == Range(ids) \cap (Range(IdsFromScripts(t)) \cup Range(IdsFromMarkup(t)))

\* The dataLayer of an observation has an entry of the Shopify or Wix patterns.
PlatformPattern(obs) ==
  /\ obs.hasDataLayer
  /\ \E i \in 1..Len(obs.dataLayer) :
       /\ obs.dataLayer[i].kind # "null"
       /\ ShopifyItem(obs.dataLayer[i]) \/ WixItem(obs.dataLayer[i])

C20_FourTagsInFixedOrder ==
  LET order == <<"Google Tag Manager", "GA4", "Google Ads Conversion", "Meta Pixel">>
  IN  /\ Len(tagResults) <= 4
      /\ [t \in 1..Len(tagResults) |-> tagResults[t].name] = SubSeq(order, 1, Len(tagResults))
      /\ pc = "done" => Len(tagResults) = 4

\* C20 (witness): a returned ScanResult with a technology present, one Not
\* Found and absent, and one whose evaluation faulted.
C20_Witness ==
  /\ pc = "done"
  /\ \E t \in Techs : tagResults[t].isPresent
  /\ \E t \in Techs : tagResults[t].status = NOT_FOUND /\ ~tagResults[t].isPresent
  /\ \E t \in Techs : Threw(t) /\ tagResults[t].status = ERROR

\* C21 (as the spec states it): the listener is removed before detectTags
\* takes its copies, so no request is recorded into a Set once the detectors
\* have started.
C21_ListenerClosedBeforeRead ==
  [][pc \notin {"navigate", "detectTags"} => UNCHANGED requestVars]_vars

\* C21 (amended): the listener stays attached during detection, but detectTags
\* copies the four Sets in one step before the first detector runs, the copies
\* never change afterwards, and every detector computes its result from its
\* copy: a request recorded later reaches no detector.
C21_DetectorsReadCopies ==
  [][/\ (pc = "detectTags" /\ pc' = "gtm")
        => net' = [gtm |-> gtmRequests, ga4 |-> ga4Requests, gads |-> googleAdsRequests,
                   meta |-> metaPixelRequests]
     /\ pc \notin {"navigate", "detectTags"}
        => /\ net' = net
           /\ Len(tagResults') > Len(tagResults)
              => \/ seen'[Len(tagResults')].fault
                 \/ tagResults'[Len(tagResults')]
                      = ResultOn(Len(tagResults'), seen'[Len(tagResults')].obs)]_vars

\* C21 (witness): a finished scan in which a request was recorded after the
\* copies were taken and GA4, whose copy is empty, is not Connected.
C21_Witness ==
  /\ pc = "done"
  /\ ga4Requests # <<>> /\ net.ga4 = <<>>
  /\ ~seen[2].fault /\ tagResults[2].status # CONNECTED

\* C23 (as the spec states it): all detectors of one scan read one immutable
\* observation: the markup, dataLayer contents and globals evaluated by the
\* detectors that have run so far are the same.
C23_OneObservation ==
  \A t \in 1..Len(seen) : seen[t].obs = seen[1].obs

IsMarker(id) ==
  \/ id = GTM_DETECTED_VIA_DESTINATION
  \/ id = META_PIXEL_DETECTED_VIA_NETWORK
  \/ StartsWith(id, <<"GTM-", "PARAM:">>)

\* C25 (as the spec states it): no marker string of the request listener is in
\* the ids list or is the primary id of a returned TagResult.
C25_NoMarkerReported ==
  \A t \in Techs :
    Ran(t) => /\ ~IsMarker(tagResults[t].id)
              /\ \A i \in 1..Len(tagResults[t].ids) : ~IsMarker(tagResults[t].ids[i])

\* The step is the request listener handling a request of the Google Ads
\* patterns.
AdsRequestObserved ==
  \E url \in UrlCatalogue :
    /\ url.site \in SiteGoogleAds
    /\ googleAdsRequests' = ListenGoogleAds(googleAdsRequests, url)
    /\ gtmRequests' = ListenGtm(gtmRequests, url)
    /\ nEvents' = nEvents + 1

\* C26 (as the spec states it): the list of network identifiers handed to
\* detectGoogleAds is the listener's Set, and an identifier enters that Set
\* only when the listener handles a request of the Google Ads patterns.
C26_AdsListOnlyFromRequests ==
  [][/\ (pc = "detectTags" /\ pc' = "gtm") => net'.gads = googleAdsRequests
     /\ googleAdsRequests' # googleAdsRequests => AdsRequestObserved]_vars

\* C26 (amended): an identifier enters the Set when the listener handles a
\* request of the Google Ads patterns, or it is AW-318511509 and scanUrl's
\* targeted search finds that text in the markup or in the serialised dataLayer.
C26_AdsListFromRequestsOrTargetedSearch ==
  [][/\ (pc = "detectTags" /\ pc' = "gtm") => net'.gads = googleAdsRequests
     /\ googleAdsRequests' # googleAdsRequests
        => \/ AdsRequestObserved
           \/ /\ pc = "navigate" /\ pc' = "detectTags"
              /\ googleAdsRequests' = Append(googleAdsRequests, AW_318511509)
              /\ HtmlIncludesId(page, AW_318511509) \/ DataLayerNamesSpecial]_vars

\* C26 (witness): Google Ads Connected on the network reason in a scan whose
\* events were all insertions of elements: no request was observed.
C26_Witness ==
  /\ pc = "done"
  /\ nEvents = Len(page)
  /\ net.gads = <<AW_318511509>>
  /\ tagResults[3].status = CONNECTED

\* C27 (as the spec states it): when GA4, Google Ads or Meta Pixel reports
\* IncompleteSetup for the reason that Tag Manager was detected on the page,
\* the Tag Manager result of the same scan has isPresent = true.
C27_GtmReasonImpliesGtmPresent ==
  \A t \in 2..4 :
    (/\ Ran(t)
     /\ tagResults[t].status = INCOMPLETE
     /\ tagResults[t].statusReason \in {"ga4-gtm-detected", "gads-gtm-detected",
                                        "meta-gtm-detected"})
      => tagResults[1].isPresent

\* Combinations of captured evidence: a page, a dataLayer, globals, and what
\* the listener records for one request or none.
SamplePages == {<<>>} \cup {<<e>> : e \in ElementCatalogue}
SampleObservations ==
  {[page |-> pg, hasDataLayer |-> FALSE, dataLayer |-> <<>>, globals |-> g, hasBody |-> TRUE] :
     pg \in SamplePages, g \in SUBSET GlobalCatalogue}
  \cup {[page |-> pg, hasDataLayer |-> TRUE, dataLayer |-> dl, globals |-> g, hasBody |-> TRUE] :
          pg \in SamplePages, dl \in {<<>>} \cup {<<it>> : it \in ItemCatalogue},
          g \in SUBSET GlobalCatalogue}
SampleNetworkIds(t) ==
  {<<>>} \cup {CASE t = 1 -> ListenGtm(<<>>, url)
                 [] t = 2 -> ListenGa4(<<>>, url)
                 [] t = 3 -> ListenGoogleAds(<<>>, url)
                 [] t = 4 -> ListenMetaPixel(<<>>, url) : url \in UrlCatalogue}

\* The statuses technology t's detector returns on the sample evidence.
StatusesReturned(t) ==
  {(CASE t = 1 -> DetectGoogleTagManager(obs, ids, FALSE)
      [] t = 2 -> DetectGA4(obs, ids, FALSE)
      [] t = 3 -> DetectGoogleAds(obs, ids, FALSE)
      [] t = 4 -> DetectMetaPixel(obs, ids, FALSE)).status :
     obs \in SampleObservations, ids \in SampleNetworkIds(t)}

\* C28 (as the spec states it): for each technology and each of Connected,
\* Misconfigured, IncompleteSetup and NotFound there is a combination of
\* captured evidence for which the technology's detector returns that status.
C28_EveryStatusReturned ==
  \A t \in Techs : {CONNECTED, MISCONFIGURED, INCOMPLETE, NOT_FOUND} \subseteq StatusesReturned(t)

\* C22 (as the spec states it): when both navigation attempts fail, scanUrl
\* signals the failure: no detector runs and no ScanResult is returned.
C22_NavigationFailureSignalled ==
  navFailures = 2 => (tagResults = <<>> /\ flow # "returned")

\* C22 (amended): whatever the retry's outcome, scanUrl goes on to scan the
\* page in its current state; it returns only after detectTags has produced
\* its four results, and it throws only from the steps of the outer try block
\* that have no catch of their own.
C22_NavigationFailureScanned ==
  [][/\ flow = "retry" => flow' = "scan"
     /\ flow' = "returned" => (pc' = "done" /\ Len(tagResults') = 4)
     /\ flow' = "catch" => flow \in {"launch", "newPage", "setup", "scan"}
     /\ (flow = "scan" /\ flow' = "catch") => pc \in {"navigate", "done"}]_vars

\* C22 (witness): a ScanResult returned after both navigation attempts failed:
\* the blank page classified, every tag NotFound.
C22_Witness ==
  /\ flow = "returned" /\ navFailures = 2
  /\ page = <<>>
  /\ \A t \in Techs : tagResults[t].status = NOT_FOUND
  /\ Len(recommendations) = 4

\* C29: no close of the browser is attempted while scanUrl is under way, one
\* is attempted on every path that ends after the launch, and none on a path
\* without a browser: a rejected URL launches nothing.
C29_OneCloseOfBrowser ==
  /\ flow \notin {"returned", "threwFailed"} => closes = 0
  /\ flow \in {"returned", "threwFailed"} => closes = (IF browser = "null" THEN 0 ELSE 1)
  /\ flow = "returned" => browser # "null"
  /\ (flow # "called" /\ ~isValidUrl(normalizedUrl))
       => (flow = "threwInvalid" /\ browser = "null" /\ scanPage = "null")
  /\ flow = "threwInvalid" => ~isValidUrl(normalizedUrl)

\* C29 (witness): detection finished, page.close() threw, and the outer catch
\* made the one close of the browser.
C29_Witness ==
  /\ flow = "threwFailed" /\ pc = "done" /\ scanPage = "open"
  /\ browser # "null" /\ closes = 1

\* C30 (as the spec states it): no two stored users have the same email, and
\* of two finished createUser calls with the same email at most one inserted a
\* user and the other failed with 'Email already exists'.
C30_EmailsUnique ==
  /\ \A i, j \in 1..Len(users) : users[i].email = users[j].email => i = j
  /\ \A p, q \in Procs :
       (/\ p # q
        /\ userCalls[p].kind = "createUser" /\ userCalls[q].kind = "createUser"
        /\ userCalls[p].email = userCalls[q].email
        /\ userCalls[p].at = "done" /\ userCalls[q].at = "done")
         => \/ userCalls[p].outcome = "created" /\ userCalls[q].outcome = "Email already exists"
            \/ userCalls[q].outcome = "created" /\ userCalls[p].outcome = "Email already exists"

=============================================================================
